---- MODULE Spec2Model ----
(***************************************************************************)
(* Model of the WAEC past-question pipeline:                               *)
(*   - the document store (raw_documents, processed_questions) with its    *)
(*     unique indexes (backend/mongo_setup.py),                            *)
(*   - ingestion (backend/data-preparation/data_collector.py),             *)
(*   - the FAISS index lifecycle and hybrid retrieval                      *)
(*     (backend/rag_pipeline/vector_db_manager.py).                        *)
(* Python lists are sequences (position i of a list is element i+1 here);  *)
(* a Mongo collection is the sequence of its records in natural order.     *)
(***************************************************************************)
EXTENDS Integers, Sequences, FiniteSets, TLC

(* ----------------------------- bounds --------------------------------- *)
\* number of ingestions (the clock datetime.now() advances once per ingestion)
MaxIngests == 3
\* largest k a caller passes to retrieve_documents
MaxK == 3
\* number of process crashes / restarts of index managers
MaxCrashes == 1
\* number of per-question store failures injected over a run
MaxFaults == 1
\* number of lines of a text handed to the extractor
MaxLines == 3
\* pieces of the content extract_year_from_content is given
MaxYearItems == 3
\* PDF files in the pdf directory
MaxPdfFiles == 2
\* pages of a PDF file
MaxPages == 2

(* ------------------------- values of the model ------------------------ *)
None == "None"
Raise == "raise"

Sources == {"u1", "u2"}
Contents == {"cA", "cB", "cC"}

\* hashlib.md5(..).hexdigest(): a digest of its input, taken collision free
Md5(s) == <<"md5", s>>

(* ------------------------------ page text ----------------------------- *)
\* A text is a sequence of tokens.  A digit, a punctuation mark, an option
\* letter, a roman numeral, a blank and a newline are tokens of one character;
\* every other token is a word or a run of words that no pattern of the
\* extractor looks into (it has no newline, no blank at its ends, and holds
\* none of the marks the patterns ask for).
DigitChars == {"0", "1", "2", "3", "4", "5", "6", "7", "8", "9"}

DigitVal(c) ==
  CASE c = "0" -> 0 [] c = "1" -> 1 [] c = "2" -> 2 [] c = "3" -> 3 [] c = "4" -> 4
    [] c = "5" -> 5 [] c = "6" -> 6 [] c = "7" -> 7 [] c = "8" -> 8 [] c = "9" -> 9

DigitStr(d) ==
  CASE d = 0 -> "0" [] d = 1 -> "1" [] d = 2 -> "2" [] d = 3 -> "3" [] d = 4 -> "4"
    [] d = 5 -> "5" [] d = 6 -> "6" [] d = 7 -> "7" [] d = 8 -> "8" [] d = 9 -> "9"

\* \s
IsSpace(c) == c \in {" ", "\n"}

\* [A-Ea-e]
OptionLetters == {"A", "B", "C", "D", "E", "a", "b", "c", "d", "e"}

\* [IVXLCDM] under IGNORECASE
RomanChars == {"I", "V", "X", "L", "C", "D", "M", "i", "v", "x", "l", "c", "d", "m"}

\* a word of the patterns in the spellings IGNORECASE accepts
Spellings(word) ==
  CASE word = "section"     -> {"SECTION", "Section", "section"}
    [] word = "question"    -> {"QUESTION", "Question", "question"}
    [] word = "questions"   -> {"QUESTIONS", "Questions", "questions"}
    [] word = "q"           -> {"Q", "q"}
    [] word = "exam name"   -> {"WAEC", "WASSCE", "SSCE", "waec", "wassce", "ssce"}
    [] word = "past"        -> {"PAST", "Past", "past"}
    [] word = "test"        -> {"TEST", "Test", "test"}
    [] word = "objective"   -> {"OBJECTIVE", "Objective", "objective"}
    [] word = "essay"       -> {"ESSAY", "Essay", "essay"}
    [] word = "line header" -> {"Instructions:", "INSTRUCTIONS:", "instructions:",
                                "Time:", "TIME:", "time:"}
    [] word = "paper"       -> {"Paper", "PAPER", "paper"}

\* str.upper() of an option letter
Upper(c) ==
  CASE c = "a" -> "A" [] c = "b" -> "B" [] c = "c" -> "C" [] c = "d" -> "D"
    [] c = "e" -> "E" [] OTHER -> c

\* the character at position i, "" beyond the ends
At(T, i) == IF i \in 1..Len(T) THEN T[i] ELSE ""

RECURSIVE Join(_)
\* the string the tokens spell
Join(T) == IF T = << >> THEN "" ELSE Head(T) \o Join(Tail(T))

\* len() of the string
TextLen(T) == Len(Join(T))

\* the least element of a non-empty set of positions
Least(S) == CHOOSE i \in S : \A j \in S : i <= j

\* where a greedy \s*, \d+ or [IVXLCDM]+ that starts at i stops
SkipSpace(T, i) ==
  IF i > Len(T) THEN i ELSE Least({j \in i..(Len(T) + 1) : ~IsSpace(At(T, j))})
SkipDigits(T, i) ==
  IF i > Len(T) THEN i ELSE Least({j \in i..(Len(T) + 1) : At(T, j) \notin DigitChars})
SkipRoman(T, i) ==
  IF i > Len(T) THEN i ELSE Least({j \in i..(Len(T) + 1) : At(T, j) \notin RomanChars})

RECURSIVE IntOf(_, _, _)
\* int() of the digits at positions from..to-1
IntOf(T, from, to) ==
  IF to <= from THEN 0 ELSE 10 * IntOf(T, from, to - 1) + DigitVal(T[to - 1])

RECURSIVE NumStr(_)
\* f"{n}" of a non-negative integer
NumStr(n) == IF n < 10 THEN DigitStr(n) ELSE NumStr(n \div 10) \o DigitStr(n % 10)

\* str.strip()
Strip(T) ==
  LET solid == {i \in 1..Len(T) : ~IsSpace(T[i])} IN
  IF solid = {} THEN << >>
  ELSE SubSeq(T, Least(solid), CHOOSE i \in solid : \A j \in solid : j <= i)

(* ------------------------------ clean_text ---------------------------- *)
\* Where a match of the header pattern of clean_text that starts at i ends
\* (exclusive), 0 when none starts there.  The alternatives, in order:
\* exam name + PAST QUESTION(S), OBJECTIVE TEST, ESSAY TEST, SECTION + one blank
\* + roman numeral, Instructions: / Time: up to the next newline, Paper N up
\* to the next newline.
BoilerplateEnd(T, i) ==
  LET j == SkipSpace(T, i + 1)
      k == SkipSpace(T, j + 1)
      newlines == {n \in (i + 1)..Len(T) : T[n] = "\n"}
      paper_no == SkipDigits(T, i + 2)
      paper_nl == {n \in paper_no..Len(T) : T[n] = "\n"}
  IN IF At(T, i) \in Spellings("exam name") /\ At(T, j) \in Spellings("past")
        /\ At(T, k) \in (Spellings("questions") \cup Spellings("question")) THEN k + 1
     ELSE IF At(T, i) \in (Spellings("objective") \cup Spellings("essay")) /\ At(T, j) \in Spellings("test") THEN j + 1
     ELSE IF At(T, i) \in Spellings("section") /\ At(T, i + 1) = " " /\ SkipRoman(T, i + 2) > i + 2
          THEN SkipRoman(T, i + 2)
     ELSE IF At(T, i) \in Spellings("line header") /\ newlines # {} THEN Least(newlines) + 1
     ELSE IF At(T, i) \in Spellings("paper") /\ At(T, i + 1) = " " /\ paper_no > i + 2 /\ paper_nl # {}
          THEN Least(paper_nl) + 1
     ELSE 0

RECURSIVE RemoveBoilerplate(_, _)
\* re.sub(header pattern, '', text) from position pos on
RemoveBoilerplate(T, pos) ==
  LET starts == {i \in pos..Len(T) : BoilerplateEnd(T, i) > 0} IN
  IF starts = {} THEN SubSeq(T, pos, Len(T))
  ELSE SubSeq(T, pos, Least(starts) - 1)
         \o RemoveBoilerplate(T, BoilerplateEnd(T, Least(starts)))

\* re.sub(r'\s{2,}', ' ', text): a run of two or more blanks and newlines
\* becomes one blank
CollapseSpace(T) ==
  LET marked == [i \in 1..Len(T) |->
                   [keep |-> ~IsSpace(T[i]) \/ ~IsSpace(At(T, i - 1)),
                    tok  |-> IF IsSpace(T[i]) /\ IsSpace(At(T, i + 1)) THEN " " ELSE T[i]]]
      kept == SelectSeq(marked, LAMBDA r : r.keep)
  IN [i \in 1..Len(kept) |-> kept[i].tok]

\* clean_text; its last substitution (\n{3,}) finds nothing after the second
clean_text(text) == Strip(CollapseSpace(RemoveBoilerplate(text, 1)))

(* --------------------------- question patterns ------------------------ *)
\* the three numbering styles of question_patterns: "N.", "Question N" /
\* "Q N" with an optional colon, "N)"
question_patterns == <<"dot", "word", "paren">>

NoMatch == [ok |-> FALSE]

\* the number and its mark at position j: (\d+)\. , (?:QUESTION|Q)\s*(\d+)\:? ,
\* (\d+)\)
QuestionMarkerAt(T, j, style) ==
  IF style = "word"
  THEN LET k == SkipSpace(T, j + 1)
           d == SkipDigits(T, k)
       IN [ok |-> At(T, j) \in (Spellings("question") \cup Spellings("q")) /\ d > k,
           num_from |-> k, num_to |-> d,
           after |-> IF At(T, d) = ":" THEN d + 1 ELSE d]
  ELSE LET d == SkipDigits(T, j) IN
       [ok |-> d > j /\ At(T, d) = (IF style = "dot" THEN "." ELSE ")"),
        num_from |-> j, num_to |-> d,
        after |-> IF d <= Len(T) THEN d + 1 ELSE d]

\* the lookahead that ends a block at position e: a newline followed by the
\* next number of the same style, by a SECTION heading, by "Questions N-M" or
\* by "Question N"; or the end of the text ($)
QuestionBoundary(T, e, style) ==
  \/ e = Len(T) + 1
  \/ e = Len(T) /\ T[e] = "\n"
  \/ /\ At(T, e) = "\n"
     /\ LET j == SkipSpace(T, e + 1)
            r == SkipSpace(T, j + 1)
            d == SkipDigits(T, r)
        IN \/ QuestionMarkerAt(T, j, style).ok
           \/ At(T, j) \in Spellings("section") /\ r > j + 1 /\ SkipRoman(T, r) > r
           \/ /\ At(T, j) \in Spellings("questions") /\ r > j + 1 /\ d > r
              /\ At(T, d) = "-" /\ SkipDigits(T, d + 1) > d + 1
           \/ At(T, j) \in Spellings("question") /\ r > j + 1 /\ d > r

\* a match of the pattern that starts at position i: (?:^|\n)\s*, the number
\* and its mark, \s*, then the shortest non-empty content (.+? with DOTALL)
\* that ends at a boundary
MatchQuestionAt(T, i, style) ==
  LET j == SkipSpace(T, IF i = 1 THEN 1 ELSE i + 1)
      m == QuestionMarkerAt(T, j, style)
      k == SkipSpace(T, m.after)
  IN IF (i = 1 \/ At(T, i) = "\n") /\ m.ok /\ k <= Len(T)
     THEN [ok |-> TRUE, start |-> i,
           end |-> Least({e \in (k + 1)..(Len(T) + 1) : QuestionBoundary(T, e, style)}),
           num_from |-> m.num_from, num_to |-> m.num_to, content_from |-> k]
     ELSE NoMatch

RECURSIVE finditer_questions(_, _, _)
\* list(pattern.finditer(text)): the matches from position pos on, left to
\* right, each search resuming where the last match ended
finditer_questions(T, pos, style) ==
  LET starts == {i \in pos..Len(T) : MatchQuestionAt(T, i, style).ok} IN
  IF starts = {} THEN << >>
  ELSE LET m == MatchQuestionAt(T, Least(starts), style) IN
       <<m>> \o finditer_questions(T, m.end, style)

(* ----------------------------- option patterns ------------------------ *)
\* the two option styles of option_patterns: "A." and "A)"
option_patterns == <<".", ")">>

\* ^ under MULTILINE
LineStart(T, i) == i = 1 \/ At(T, i - 1) = "\n"

\* re.search(r'^\s*([A-Ea-e][\.\)])', ..., re.MULTILINE) matches at i
OptionStartAt(T, i) ==
  /\ LineStart(T, i)
  /\ LET j == SkipSpace(T, i) IN At(T, j) \in OptionLetters /\ At(T, j + 1) \in {".", ")"}

\* the lookahead that ends an option text at e: a newline followed by the next
\* letter of the same style or by "N.", or the end of the text (\Z)
OptionBoundary(T, e, mark) ==
  \/ e = Len(T) + 1
  \/ /\ At(T, e) = "\n"
     /\ LET j == SkipSpace(T, e + 1)
            d == SkipDigits(T, j)
        IN \/ At(T, j) \in OptionLetters /\ At(T, j + 1) = mark
           \/ d > j /\ At(T, d) = "."

\* a match of the option pattern of the given style that starts at i:
\* ^\s*, letter and mark, \s*, then the shortest non-empty text within the line
\* (. does not match a newline) that ends at a boundary
MatchOptionAt(T, i, mark) ==
  LET j == SkipSpace(T, i)
      k == SkipSpace(T, j + 2)
      line_end == Least({e \in k..(Len(T) + 1) : At(T, e) \in {"\n", ""}})
  IN IF /\ LineStart(T, i) /\ At(T, j) \in OptionLetters /\ At(T, j + 1) = mark
        /\ k <= Len(T)
        /\ \E e \in (k + 1)..line_end : OptionBoundary(T, e, mark)
     THEN [ok |-> TRUE, start |-> i, letter_at |-> j, text_from |-> k,
           end |-> Least({e \in (k + 1)..line_end : OptionBoundary(T, e, mark)})]
     ELSE NoMatch

RECURSIVE finditer_options(_, _, _)
finditer_options(T, pos, mark) ==
  LET starts == {i \in pos..Len(T) : MatchOptionAt(T, i, mark).ok} IN
  IF starts = {} THEN << >>
  ELSE LET m == MatchOptionAt(T, Least(starts), mark) IN
       <<m>> \o finditer_options(T, m.end, mark)

\* an option that takes its letter from the first letter of the text
option_of_first_letter(T, m) ==
  [letter |-> Upper(T[Least({i \in 1..Len(T) : T[i] \in OptionLetters})]),
   text |-> Join(Strip(SubSeq(T, m.text_from, m.end - 1)))]

\* the option a match yields: upper-cased letter, stripped text
option_of(T, m) ==
  [letter |-> Upper(T[m.letter_at]), text |-> Join(Strip(SubSeq(T, m.text_from, m.end - 1)))]

\* extract_options: the loop over option_patterns ends with break (line 82)
\* after its first round, so only the first style is ever tried; options whose
\* text has fewer than two characters are dropped
extract_options(text_after_question) ==
  LET matches == finditer_options(text_after_question, 1, option_patterns[1])
      found == [i \in DOMAIN matches |-> option_of(text_after_question, matches[i])]
  IN SelectSeq(found, LAMBDA o : Len(o.text) >= 2)

(* --------------------------- extract_questions ------------------------ *)
\* stems (lower-cased) that hold a word of the calculation list, of the
\* explanatory list, of the binary-judgment list
KindWords(kind) ==
  CASE kind = "calc"  -> {"calculate x", "Find x", "Find and explain", "Solve: true or false"}
    [] kind = "essay" -> {"explain why", "Explain why", "State the law", "Find and explain",
                          "State true or false", "identify the true statement"}
    [] kind = "tf"    -> {"true or false", "State true or false", "Solve: true or false",
                          "identify the true statement"}
    [] OTHER          -> {}

\* any(word in text_lower for word in [...])
HasWord(stem, kind) == \E i \in DOMAIN stem : stem[i] \in KindWords(kind)

\* a type rule that looks for the words before it looks at the options
determine_question_type_words_first(question_text, options) ==
  IF HasWord(question_text, "calc") THEN "calculation"
  ELSE IF HasWord(question_text, "essay") THEN "essay"
  ELSE IF HasWord(question_text, "tf") THEN "true_false"
  ELSE IF options # << >> THEN "multiple_choice"
  ELSE "short_answer"

\* a type rule that looks for the explanatory words before the calculation words
determine_question_type_essay_first(question_text, options) ==
  IF options # << >> THEN "multiple_choice"
  ELSE IF HasWord(question_text, "essay") THEN "essay"
  ELSE IF HasWord(question_text, "calc") THEN "calculation"
  ELSE IF HasWord(question_text, "tf") THEN "true_false"
  ELSE "short_answer"

determine_question_type(question_text, options) ==
  IF options # << >> THEN "multiple_choice"
  ELSE IF HasWord(question_text, "calc") THEN "calculation"
  ELSE IF HasWord(question_text, "essay") THEN "essay"
  ELSE IF HasWord(question_text, "tf") THEN "true_false"
  ELSE "short_answer"

\* a fingerprint that leaves the stem out
question_id_without_stem(source, question_num, question_stem) ==
  Md5(source \o "-" \o NumStr(question_num))

\* hashlib.md5(f"{source}-{question_num}-{question_stem}".encode()).hexdigest()
question_id_of(source, question_num, question_stem) ==
  Md5(source \o "-" \o NumStr(question_num) \o "-" \o question_stem)

\* the stem and the options when an option start was found at
\* option_start_index (lines 135-140); options are those of the text from
\* there on
split_at_option_start(content_raw, option_start_index, options) ==
  [stem    |-> IF options = << >> /\ TextLen(content_raw) > 200 THEN content_raw
               ELSE Strip(SubSeq(content_raw, 1, option_start_index - 1)),
   options |-> options]

\* the stem and the options when no option start was found (lines 142-149);
\* options are those of the whole content
split_at_first_option(content_raw, options) ==
  LET firsts == {i \in 1..Len(content_raw) :
                   /\ content_raw[i] = options[1].letter
                   /\ At(content_raw, i + 1) \in {".", ")"}}
  IN [stem    |-> IF options # << >> /\ firsts # {}
                  THEN Strip(SubSeq(content_raw, 1, Least(firsts) - 1))
                  ELSE content_raw,
      options |-> options]

\* lines 129-149: stem and options of the content of a match; starts are the
\* places where the option-start search matches
stem_and_options(content_raw, starts) ==
  IF starts # {}
  THEN split_at_option_start(
         content_raw, Least(starts),
         extract_options(Strip(SubSeq(content_raw, Least(starts), Len(content_raw)))))
  ELSE split_at_first_option(content_raw, extract_options(content_raw))

\* lines 151-161: the question built from number, stem and options
question_data(source, question_num, parts) ==
  [question_number |-> question_num,
   question_text   |-> Join(parts.stem),
   question_type   |-> determine_question_type(parts.stem, parts.options),
   options         |-> parts.options,
   source          |-> source,
   question_id     |-> question_id_of(source, question_num, Join(parts.stem))]

\* the places where re.search(r'^\s*([A-Ea-e][\.\)])', ..., re.MULTILINE)
\* matches in the content of a match
option_starts(content_raw) ==
  {i \in 1..Len(content_raw) : OptionStartAt(content_raw, i)}

\* lines 126-161 for the stripped content of a match; ok is FALSE when the
\* block is skipped (under 10 characters)
question_of_content(content_raw, question_num, source) ==
  IF TextLen(content_raw) < 10 THEN NoMatch
  ELSE [ok |-> TRUE,
        question |-> question_data(source, question_num,
                                   stem_and_options(content_raw, option_starts(content_raw)))]

\* the body of the loop over the matches (lines 116-161) for match m of the
\* cleaned text T
question_of(T, m, source) ==
  question_of_content(Strip(SubSeq(T, m.content_from, m.end - 1)),
                      IntOf(T, m.num_from, m.num_to), source)

\* the questions of the blocks that were not skipped
appended(built) == [i \in DOMAIN built |-> built[i].question]

\* the questions one pattern yields
questions_of(T, matches, source) ==
  appended(SelectSeq([i \in DOMAIN matches |-> question_of(T, matches[i], source)],
                     LAMBDA b : b.ok))

RECURSIVE PatternLoop(_, _, _)
\* lines 163-165: a pattern that yielded questions ends the loop
yield_or_next(qs, T, source, n) == IF qs # << >> THEN qs ELSE PatternLoop(T, source, n + 1)

\* the loop over question_patterns from pattern n on: a pattern with no match
\* is passed over, the first pattern that yields a question ends the loop
PatternLoop(T, source, n) ==
  IF n > Len(question_patterns) THEN << >>
  ELSE yield_or_next(questions_of(T, finditer_questions(T, 1, question_patterns[n]), source),
                     T, source, n)

extract_questions(text, source) == PatternLoop(clean_text(text), source, 1)

(* ------------------------------- pages -------------------------------- *)
\* the text of the pages that are collected
PageText(content) ==
  CASE content = "cA" ->
         <<"WAEC", " ", "2", "0", "1", "2", " ", "Mathematics", "\n",
           "1", ".", " ", "calculate x", "\n",
           "A", ".", " ", "three", "\n",
           "B", ".", " ", "four", "\n",
           "2", ".", " ", "explain why">>
    [] content = "cB" ->
         <<"WASSCE", " ", "2", "0", "1", "5", " ", "Physics", "\n",
           "1", ".", " ", "calculate x">>
    [] content = "pB" ->
         <<"WASSCE", " ", "2", "0", "1", "5", " ", "Physics", "\n",
           "1", ".", " ", "State the law", "\n",
           "2", ".", " ", "explain why", "\n",
           "3", ".", " ", "calculate x">>
    [] OTHER -> <<"WAEC", " ", "PAST", " ", "QUESTIONS">>

\* subject keyword the page text carries
SubjectWord(text) ==
  CASE text = "cA" -> "mathematics"
    [] text = "cB" -> "physics"
    [] text = "pB" -> "physics"
    [] OTHER       -> None

\* year that fetch_web_content / process_pdf_document attach to the page;
\* 0 stands for a year that was not found (None)
YearOf(text) ==
  CASE text = "cA" -> 2012
    [] text = "cB" -> 2015
    [] OTHER       -> 0

extract_subject(text, filename) == SubjectWord(text)

\* the texts of the pages of the PDF files, the directories the files lie in
\* (one of them named by a year) and the names of the files
PdfContents == {"cA", "cB", "pB"}
PdfDirs == {<<"2", "0", "1", "9">>, <<"maths">>}
PdfNames == {<<"paper", ".", "pdf">>, <<"waec", "_", "2", "0", "1", "5", ".", "pdf">>}

\* f"{pdf_path.name}#page={i+1}"
PdfSource(name, page_number) == Join(name) \o "#page=" \o NumStr(page_number)

PdfSources == {PdfSource(name, i) : name \in PdfNames, i \in 1..MaxPages}

\* extract_questions over each page and source, worked out once
Extracted ==
  [content \in Contents \cup PdfContents |->
     [source \in Sources \cup PdfSources |-> extract_questions(PageText(content), source)]]

(* ------------------------------- state -------------------------------- *)
VARIABLES
  raw,          \* raw_documents collection, natural order
  questions,    \* processed_questions collection, natural order
  now,          \* datetime.now(), one tick per ingestion
  faults,       \* store failures injected so far
  last,         \* the last ingestion: its document and outcome
  pc,           \* per manager process: position in __init__ / serving
  faiss_index,  \* per manager: self.faiss_index (None or its vectors)
  doc_id_map,   \* per manager: self.doc_id_map
  index_file,   \* file at FAISS_INDEX_PATH (None when absent)
  id_map_file,  \* file at FAISS_ID_MAP_PATH (None when absent)
  builds,       \* rebuilds started so far (generation stamp of the next one)
  crashes,      \* process crashes so far
  origin,       \* per manager: how index and id map were obtained, from which rebuild,
                \* and how many questions the store held then
  seen,         \* per manager: the artifact files that were on disk when it started
  workers,      \* per concurrent ingestion worker: its position, document and counters
  result        \* the last retrieve_documents call and what it returned

storeVars == <<raw, questions, now, faults, last, workers>>
mgrVars == <<pc, faiss_index, doc_id_map, index_file, id_map_file, builds, crashes, origin, seen>>
vars == <<raw, questions, now, faults, last, workers, pc, faiss_index, doc_id_map,
          index_file, id_map_file, builds, crashes, origin, seen, result>>

(* --------------------------- document store --------------------------- *)
\* unique indexes of create_collections
\* raw_documents left with the default _id index only
raw_index_dropped == "_id"

raw_unique_index == "source"
questions_unique_index == "question_id"

Positions(coll) == 1..Len(coll)

Matching(coll, key, value) == {i \in Positions(coll) : coll[i][key] = value}

First(S) == CHOOSE i \in S : \A j \in S : i <= j

\* {"$set": doc} applied to a stored record: fields of doc overwrite, _id stays
SetFields(rec, doc) ==
  [f \in (DOMAIN rec) \cup (DOMAIN doc) |-> IF f \in DOMAIN doc THEN doc[f] ELSE rec[f]]

\* a fresh ObjectId; records are never deleted, so the count names it
NewObjectId(coll) == Len(coll) + 1

\* collection.update_one({key: doc[key]}, {"$set": doc}, upsert=True) on a
\* collection with a unique index on field unique.  ok = FALSE is the
\* DuplicateKeyError the server raises; the collection is then unchanged.
update_one_upsert(coll, key, doc, unique) ==
  LET hit == Matching(coll, key, doc[key]) IN
  IF hit # {}
  THEN LET i == First(hit)
           new == SetFields(coll[i], doc)
           clash == {j \in Positions(coll) \ {i} : coll[j][unique] = new[unique]}
       IN IF clash # {}
          THEN [ok |-> FALSE, coll |-> coll, upserted |-> FALSE]
          ELSE [ok |-> TRUE, coll |-> [coll EXCEPT ![i] = new], upserted |-> FALSE]
  ELSE LET new == SetFields([_id |-> NewObjectId(coll)], doc)
           clash == {j \in Positions(coll) : coll[j][unique] = new[unique]}
       IN IF clash # {}
          THEN [ok |-> FALSE, coll |-> coll, upserted |-> FALSE]
          ELSE [ok |-> TRUE, coll |-> Append(coll, new), upserted |-> TRUE]

(* ------------------------------ ingestion ----------------------------- *)
\* the page document built by fetch_web_content / process_pdf_document
Document(source, text, at) ==
  [source |-> source, content |-> text, content_hash |-> Md5(text),
   year |-> YearOf(text), collected_at |-> at]

\* insert_document: upsert keyed by content_hash; an exception returns False
insert_document(coll, document) ==
  update_one_upsert(coll, "content_hash", document, raw_unique_index)

question_doc_of(question, document, subject, at) ==
  SetFields(question, [year |-> document.year, subject |-> subject,
                       document_source |-> document.source, processed_at |-> at])

RECURSIVE StoreLoop_aborting(_, _, _, _, _, _, _)
\* a loop that the first upsert that raises brings to its end
StoreLoop_aborting(coll, qs, i, document, subject, at, fails) ==
  IF i > Len(qs) \/ i \in fails THEN [coll |-> coll, stored_count |-> 0]
  ELSE LET r == update_one_upsert(coll, "question_id",
                                  question_doc_of(qs[i], document, subject, at),
                                  questions_unique_index)
           rest == StoreLoop_aborting(r.coll, qs, i + 1, document, subject, at, fails)
       IN [coll |-> rest.coll,
           stored_count |-> rest.stored_count + (IF r.ok THEN 1 ELSE 0)]

\* the for loop of extract_and_store_questions from question i on; the
\* upserts at the positions in fails raise and are skipped
RECURSIVE StoreLoop(_, _, _, _, _, _, _)
StoreLoop(coll, qs, i, document, subject, at, fails) ==
  IF i > Len(qs) THEN [coll |-> coll, stored_count |-> 0]
  ELSE LET qdoc == question_doc_of(qs[i], document, subject, at)
           r == IF i \in fails
                THEN [ok |-> FALSE, coll |-> coll]
                ELSE update_one_upsert(coll, "question_id", qdoc, questions_unique_index)
           rest == StoreLoop(r.coll, qs, i + 1, document, subject, at, fails)
       IN [coll |-> rest.coll,
           stored_count |-> rest.stored_count + (IF r.ok THEN 1 ELSE 0)]

extract_and_store_questions(coll, document, at, fails) ==
  LET qs == Extracted[document.content][document.source]
      found == extract_subject(document.content, document.source)
      subject == IF found = None THEN "unknown" ELSE found
  IN IF qs = << >> THEN [coll |-> coll, stored_count |-> 0]
     ELSE StoreLoop(coll, qs, 1, document, subject, at, fails)

\* one page through collect_web_data / collect_pdf_data: insert_document,
\* then extract_and_store_questions whatever insert_document returned
Ingest(source, text, fails) ==
  /\ now < MaxIngests
  /\ faults + Cardinality(fails) <= MaxFaults
  /\ LET document == Document(source, text, now + 1)
         r == insert_document(raw, document)
         q == extract_and_store_questions(questions, document, now + 1, fails)
     IN /\ raw' = r.coll
        /\ questions' = q.coll
        /\ last' = [op |-> "ingest", source |-> source, text |-> text,
                    fails |-> fails, inserted |-> r.ok,
                    stored_count |-> q.stored_count,
                    again |-> /\ last.op = "ingest"
                              /\ last.source = source
                              /\ last.text = text
                              /\ last.fails = {}]
  /\ now' = now + 1
  /\ faults' = faults + Cardinality(fails)
  /\ result' = [op |-> "none"]
  /\ UNCHANGED <<mgrVars, workers>>

IngestPage ==
  \E source \in Sources, text \in Contents :
    \E fails \in SUBSET (DOMAIN Extracted[text][source]) : Ingest(source, text, fails)

(* --------------------------- embeddings ------------------------------- *)
RECURSIVE OptionsStr(_)
\* "\n".join(f"{opt['letter']}) {opt['text']}" for opt in options)
OptionsStr(options) ==
  IF options = << >> THEN ""
  ELSE LET line == Head(options).letter \o ") " \o Head(options).text
       IN IF Len(options) = 1 THEN line
          ELSE line \o "\n" \o OptionsStr(Tail(options))

\* the text of a stored question that is embedded: stem, then the options
TextToEmbed(doc) ==
  IF doc.options # << >>
  THEN doc.question_text \o "\n" \o OptionsStr(doc.options)
  ELSE doc.question_text

\* the embedding model, a pure function of the text (one coordinate here)
Embed(text) ==
  CASE text = "calculate x"                      -> 5
    [] text = "calculate x\nA) three\nB) four" -> 2
    [] text = "explain why"                      -> 9
    [] OTHER                                     -> 0

embed_query(query) == Embed(query)

\* an embedding call that returns the vectors in reverse order
embed_documents_reversed(texts) ==
  [i \in DOMAIN texts |-> Embed(texts[Len(texts) + 1 - i])]

\* embed_documents keeps the order of its input
embed_documents(texts) == [i \in DOMAIN texts |-> Embed(texts[i])]

\* squared L2 distance of IndexFlatL2
L2(a, b) == (a - b) * (a - b)

Min(a, b) == IF a < b THEN a ELSE b

Range(f) == {f[i] : i \in DOMAIN f}

\* index.search(query, k): the row of positions (0-based) of the k nearest
\* vectors, nearest first, filled with -1 when the index has fewer than k
\* vectors.  The order among equal distances is not fixed by the library.
SearchResults(vecs, qv, k) ==
  LET n == Len(vecs)
      m == Min(k, n)
      D(pos) == L2(vecs[pos + 1], qv)
      rows == {r \in [1..m -> 0..(n - 1)] :
                 /\ \A i, j \in 1..m : i < j => (r[i] # r[j] /\ D(r[i]) <= D(r[j]))
                 /\ \A x \in (0..(n - 1)) \ Range(r) : \A i \in 1..m : D(r[i]) <= D(x)}
  IN {[i \in 1..k |-> IF i <= m THEN r[i] ELSE -1] : r \in rows}

\* str(doc['_id']) and ObjectId(mid)
StrOfId(oid) == <<"oid", oid>>
ObjectId(mid) == mid[2]

(* ------------------------- index managers ----------------------------- *)
Procs == {"m1", "m2"}

\* self.faiss_index: None, or an IndexFlatL2 holding vectors
NoIndex == [none |-> TRUE, vectors |-> << >>]
IndexFlatL2(vectors) == [none |-> FALSE, vectors |-> vectors]

\* index.ntotal (0 when there is no index)
IndexSize(index) == Len(index.vectors)

\* an artifact path with no file
NoFile == [exists |-> FALSE]

\* __init__ up to the test of line 42: both artifact files exist, or not
Start(p) ==
  /\ pc[p] \in {"down", "failed"}
  /\ pc' = [pc EXCEPT ![p] = IF index_file.exists /\ id_map_file.exists
                             THEN "read_index" ELSE "rebuild"]
  /\ faiss_index' = [faiss_index EXCEPT ![p] = NoIndex]
  /\ doc_id_map' = [doc_id_map EXCEPT ![p] = << >>]
  /\ origin' = [origin EXCEPT ![p] = [how |-> "none", index |-> 0, map |-> 0, store |-> 0]]
  /\ seen' = [seen EXCEPT ![p] = [index |-> index_file, map |-> id_map_file]]
  /\ result' = [op |-> "none"]
  /\ UNCHANGED <<storeVars, index_file, id_map_file, builds, crashes>>

\* faiss.read_index(FAISS_INDEX_PATH)
ReadIndex(p) ==
  /\ pc[p] = "read_index"
  /\ faiss_index' = [faiss_index EXCEPT ![p] = IndexFlatL2(index_file.vectors)]
  /\ origin' = [origin EXCEPT ![p].index = index_file.build, ![p].store = Len(questions)]
  /\ pc' = [pc EXCEPT ![p] = "read_map"]
  /\ result' = [op |-> "none"]
  /\ UNCHANGED <<storeVars, doc_id_map, index_file, id_map_file, builds, crashes, seen>>

\* json.load of FAISS_ID_MAP_PATH; the manager is then constructed
ReadIdMap(p) ==
  /\ pc[p] = "read_map"
  /\ doc_id_map' = [doc_id_map EXCEPT ![p] = id_map_file.ids]
  /\ origin' = [origin EXCEPT ![p].map = id_map_file.build, ![p].how = "loaded"]
  /\ pc' = [pc EXCEPT ![p] = "ready"]
  /\ result' = [op |-> "none"]
  /\ UNCHANGED <<storeVars, faiss_index, index_file, id_map_file, builds, crashes, seen>>

\* read_index or json.load raises (a file that is truncated or not in the
\* expected format): the except branch of line 47 runs the rebuild
LoadFails(p) ==
  /\ pc[p] \in {"read_index", "read_map"}
  /\ pc' = [pc EXCEPT ![p] = "rebuild"]
  /\ result' = [op |-> "none"]
  /\ UNCHANGED <<storeVars, faiss_index, doc_id_map, index_file, id_map_file,
                 builds, crashes, origin, seen>>

texts_to_embed(all_documents) ==
  [i \in DOMAIN all_documents |-> TextToEmbed(all_documents[i])]

ids_of(all_documents) ==
  [i \in DOMAIN all_documents |-> StrOfId(all_documents[i]._id)]

\* _create_index_from_mongodb, lines 55-82: read every stored question,
\* embed the texts, build the index in memory
CreateIndex(p) ==
  /\ pc[p] = "rebuild"
  /\ LET all_documents == questions IN
     IF all_documents = << >>
     THEN /\ faiss_index' = [faiss_index EXCEPT ![p] = NoIndex]
          /\ doc_id_map' = [doc_id_map EXCEPT ![p] = << >>]
          /\ pc' = [pc EXCEPT ![p] = "ready"]
     ELSE /\ faiss_index' = [faiss_index EXCEPT ![p] =
                               IndexFlatL2(embed_documents(texts_to_embed(all_documents)))]
          /\ doc_id_map' = [doc_id_map EXCEPT ![p] = ids_of(all_documents)]
          /\ pc' = [pc EXCEPT ![p] = "write_index"]
  /\ builds' = builds + 1
  /\ origin' = [origin EXCEPT ![p] = [how |-> "rebuilt", index |-> builds + 1,
                                      map |-> builds + 1, store |-> Len(questions)]]
  /\ result' = [op |-> "none"]
  /\ UNCHANGED <<storeVars, index_file, id_map_file, crashes, seen>>

\* an embedding failure that is swallowed: the rebuild goes on to its writes
on_embed_failure_swallowed == "write_index"

\* embed_documents raises at line 76: nothing catches it inside
\* _create_index_from_mongodb, the constructor ends with the exception
on_embed_failure == "failed"

\* _create_index_from_mongodb over a non-empty store when the embedding
\* provider raises: lines 55-73 have run (the id map is collected in memory),
\* lines 77-88 have not; the process ends, which counts as a crash
EmbedFails(p) ==
  /\ pc[p] = "rebuild"
  /\ questions # << >>
  /\ crashes < MaxCrashes
  /\ crashes' = crashes + 1
  /\ doc_id_map' = [doc_id_map EXCEPT ![p] = ids_of(questions)]
  /\ builds' = builds + 1
  /\ origin' = [origin EXCEPT ![p] = [how |-> "failed", index |-> builds + 1,
                                      map |-> builds + 1, store |-> Len(questions)]]
  /\ pc' = [pc EXCEPT ![p] = on_embed_failure]
  /\ result' = [op |-> "none"]
  /\ UNCHANGED <<storeVars, faiss_index, index_file, id_map_file, seen>>

\* faiss.write_index(self.faiss_index, FAISS_INDEX_PATH)
WriteIndex(p) ==
  /\ pc[p] = "write_index"
  /\ index_file' = [exists |-> TRUE, vectors |-> faiss_index[p].vectors, build |-> origin[p].index]
  /\ pc' = [pc EXCEPT ![p] = "write_map"]
  /\ result' = [op |-> "none"]
  /\ UNCHANGED <<storeVars, faiss_index, doc_id_map, id_map_file, builds, crashes, origin, seen>>

\* a rebuild that returns without persisting its id map
WriteIdMap_skipped(p) ==
  /\ pc[p] = "write_map"
  /\ pc' = [pc EXCEPT ![p] = "ready"]
  /\ result' = [op |-> "none"]
  /\ UNCHANGED <<storeVars, faiss_index, doc_id_map, index_file, id_map_file,
                 builds, crashes, origin, seen>>

\* json.dump(self.doc_id_map, f); the manager is then constructed
WriteIdMap(p) ==
  /\ pc[p] = "write_map"
  /\ id_map_file' = [exists |-> TRUE, ids |-> doc_id_map[p], build |-> origin[p].map]
  /\ pc' = [pc EXCEPT ![p] = "ready"]
  /\ result' = [op |-> "none"]
  /\ UNCHANGED <<storeVars, faiss_index, doc_id_map, index_file, builds, crashes, origin, seen>>

\* the process of manager p dies (at any point) and may be started again
Crash(p) ==
  /\ pc[p] # "down"
  /\ crashes < MaxCrashes
  /\ crashes' = crashes + 1
  /\ pc' = [pc EXCEPT ![p] = "down"]
  /\ faiss_index' = [faiss_index EXCEPT ![p] = NoIndex]
  /\ doc_id_map' = [doc_id_map EXCEPT ![p] = << >>]
  /\ origin' = [origin EXCEPT ![p] = [how |-> "none", index |-> 0, map |-> 0, store |-> 0]]
  /\ seen' = [seen EXCEPT ![p] = [index |-> NoFile, map |-> NoFile]]
  /\ result' = [op |-> "none"]
  /\ UNCHANGED <<storeVars, index_file, id_map_file, builds>>

(* ------------------------------ retrieval ----------------------------- *)
\* values callers pass; None: the argument is left out (0 for the year)
Queries == {None, "calculate x", "explain why"}
SubjectArgs == {None, "Mathematics", "physics"}
YearArgs == {0, 2012, 2015}

\* str.lower()
Lower(str) == IF str = "Mathematics" THEN "mathematics" ELSE str

mongo_filter_of(subject, year) ==
  [subject |-> IF subject # None THEN Lower(subject) ELSE None, year |-> year]

\* bool(mongo_filter): some key was set
HasFilter(f) == f.subject # None \/ f.year # 0

\* a filter match that drops the year condition
Satisfies_subject_only(doc, f) == f.subject = None \/ doc.subject = f.subject

Satisfies(doc, f) ==
  /\ f.subject = None \/ doc.subject = f.subject
  /\ f.year = 0 \/ doc.year = f.year

\* list(collection.find(mongo_filter)): matching records in natural order
find(coll, f) == SelectSeq(coll, LAMBDA d : Satisfies(d, f))

\* list(collection.find({"_id": {"$in": [ObjectId(mid) for mid in mids]}}))
find_by_ids(coll, mids) ==
  SelectSeq(coll, LAMBDA d : \E i \in DOMAIN mids : d._id = ObjectId(mids[i]))

\* lst[i] of a Python list: a negative i counts from the end
PyInRange(lst, i) == -Len(lst) <= i /\ i < Len(lst)
PyAt(lst, i) == IF i >= 0 THEN lst[i + 1] ELSE lst[Len(lst) + i + 1]

Returned(p, query, k, subject, year, docs, eq, ed, search, ranked) ==
  [op |-> "retrieve", p |-> p, query |-> query, k |-> k, subject |-> subject,
   year |-> year, outcome |-> "ok", docs |-> docs, embedded_query |-> eq,
   embedded_documents |-> ed, search |-> search, ranked |-> ranked]

Raised(p, query, k, subject, year, eq, search) ==
  [op |-> "retrieve", p |-> p, query |-> query, k |-> k, subject |-> subject,
   year |-> year, outcome |-> Raise, docs |-> << >>, embedded_query |-> eq,
   embedded_documents |-> FALSE, search |-> search, ranked |-> << >>]

\* a filtered retrieval that keeps its subset index as the manager's index
retrieve_documents_keeping_subset(p, query, k, subject, year) ==
  /\ pc[p] = "ready"
  /\ result.op = "none"
  /\ query # None
  /\ HasFilter(mongo_filter_of(subject, year))
  /\ find(questions, mongo_filter_of(subject, year)) # << >>
  /\ result' = Returned(p, query, k, subject, year,
                        find(questions, mongo_filter_of(subject, year)),
                        TRUE, TRUE, "subset", << >>)
  /\ faiss_index' = [faiss_index EXCEPT ![p] =
         IndexFlatL2(embed_documents(texts_to_embed(
                       find(questions, mongo_filter_of(subject, year)))))]
  /\ UNCHANGED <<storeVars, pc, doc_id_map, index_file, id_map_file, builds, crashes,
                 origin, seen>>

\* a retrieval that ranks the questions of the store instead of those of the
\* manager's index
retrieve_documents_over_store(p, query, k, subject, year) ==
  /\ pc[p] = "ready"
  /\ result.op = "none"
  /\ query # None
  /\ result' = Returned(p, query, k, subject, year,
                        find(questions, mongo_filter_of(subject, year)),
                        TRUE, TRUE, "global", ids_of(questions))
  /\ UNCHANGED <<storeVars, mgrVars>>

\* retrieve_documents on the constructed manager p; result records the call,
\* what it returned (or that it raised) and which collaborators it invoked
retrieve_documents(p, query, k, subject, year) ==
  /\ pc[p] = "ready"
  /\ result.op = "none"
  /\ LET f == mongo_filter_of(subject, year) IN
     IF query = None /\ HasFilter(f)
     THEN result' = Returned(p, query, k, subject, year, find(questions, f),
                             FALSE, FALSE, "none", << >>)
     ELSE IF query = None
     THEN \* embed_query(None): the provider raises on a non-string
          result' = Raised(p, query, k, subject, year, TRUE, "none")
     ELSE
       LET qv == embed_query(query) IN
       IF ~HasFilter(f)
       THEN IF faiss_index[p].none
            THEN \* None.search: AttributeError
                 result' = Raised(p, query, k, subject, year, TRUE, "none")
            ELSE \E hits \in SearchResults(faiss_index[p].vectors, qv, k) :
                   LET used == SelectSeq(hits, LAMBDA i : i < Len(doc_id_map[p])) IN
                   IF \E n \in DOMAIN used : ~PyInRange(doc_id_map[p], used[n])
                   THEN \* doc_id_map[i]: IndexError
                        result' = Raised(p, query, k, subject, year, TRUE, "global")
                   ELSE LET mids == [n \in DOMAIN used |-> PyAt(doc_id_map[p], used[n])] IN
                        result' = Returned(p, query, k, subject, year,
                                           find_by_ids(questions, mids),
                                           TRUE, FALSE, "global", mids)
       ELSE LET filtered == find(questions, f) IN
            IF filtered = << >>
            THEN result' = Returned(p, query, k, subject, year, << >>,
                                    TRUE, FALSE, "none", << >>)
            ELSE LET subset_doc_ids == ids_of(filtered)
                     subset == embed_documents(texts_to_embed(filtered))
                 IN \E hits \in SearchResults(subset, qv, Min(k, Len(subset))) :
                      LET mids == [n \in DOMAIN hits |-> PyAt(subset_doc_ids, hits[n])] IN
                      result' = Returned(p, query, k, subject, year,
                                         find_by_ids(questions, mids),
                                         TRUE, TRUE, "subset", mids)
  /\ UNCHANGED <<storeVars, mgrVars>>

Retrieve(p) ==
  \E query \in Queries, k \in 1..MaxK, subject \in SubjectArgs, year \in YearArgs :
    retrieve_documents(p, query, k, subject, year)

\* the caller has taken the returned list (or the exception)
ReturnToCaller ==
  /\ result.op = "retrieve"
  /\ result' = [op |-> "none"]
  /\ UNCHANGED <<storeVars, mgrVars>>

(* ------------------------- concurrent workers ------------------------- *)
\* two workers that ingest the same page at the same time
Workers == {"w1", "w2"}

\* the first phase of update_one(..., upsert=True): the position of the first
\* record that matches the filter, 0 when none does
upsert_find(coll, key, doc) ==
  IF Matching(coll, key, doc[key]) = {} THEN 0 ELSE First(Matching(coll, key, doc[key]))

\* the write of an upsert that found a record: $set on it, under the unique
\* index
upsert_update(coll, i, new, unique) ==
  IF {j \in Positions(coll) \ {i} : coll[j][unique] = new[unique]} # {}
  THEN [ok |-> FALSE, coll |-> coll]
  ELSE [ok |-> TRUE, coll |-> [coll EXCEPT ![i] = new]]

\* the write of an upsert that found no record: an insert under the unique
\* index.  When another writer has put the key there in between, the server
\* raises DuplicateKeyError or, when the unique index is on the filter key and
\* the server retries, runs the upsert again as an update (retry).
upsert_insert(coll, key, doc, unique, new, retry) ==
  IF {j \in Positions(coll) : coll[j][unique] = new[unique]} = {}
  THEN [ok |-> TRUE, coll |-> Append(coll, new)]
  ELSE IF key = unique /\ retry
       THEN [ok |-> TRUE, coll |-> update_one_upsert(coll, key, doc, unique).coll]
       ELSE [ok |-> FALSE, coll |-> coll]

\* the second phase of update_one(..., upsert=True)
upsert_write(coll, key, doc, unique, found, retry) ==
  IF found # 0
  THEN upsert_update(coll, found, SetFields(coll[found], doc), unique)
  ELSE upsert_insert(coll, key, doc, unique,
                     SetFields([_id |-> NewObjectId(coll)], doc), retry)

\* the page both workers fetched
WorkerSource == "u1"
WorkerText == "cA"

\* the questions of the page and its subject
WorkerQuestions == Extracted[WorkerText][WorkerSource]
WorkerSubject ==
  IF extract_subject(WorkerText, WorkerSource) = None THEN "unknown"
  ELSE extract_subject(WorkerText, WorkerSource)

\* the record worker w writes for question i
WorkerQuestionDoc(w, i) ==
  question_doc_of(WorkerQuestions[i], workers[w].document, WorkerSubject,
                  workers[w].document.collected_at)

\* fetch_web_content: the worker builds its document
Fetch(w) ==
  /\ workers[w].pc = "idle"
  /\ workers' = [workers EXCEPT ![w] =
                   [pc |-> "insert_find",
                    document |-> Document(WorkerSource, WorkerText, now + 1),
                    found |-> 0, i |-> 1, inserted |-> FALSE, stored_count |-> 0]]
  /\ now' = now + 1
  /\ UNCHANGED <<raw, questions, faults, last, mgrVars, result>>

\* insert_document, first phase of its upsert
InsertFind(w) ==
  /\ workers[w].pc = "insert_find"
  /\ workers' = [workers EXCEPT
                   ![w].pc = "insert_write",
                   ![w].found = upsert_find(raw, "content_hash", workers[w].document)]
  /\ UNCHANGED <<raw, questions, now, faults, last, mgrVars, result>>

\* insert_document, second phase of its upsert; an exception returns False
InsertWrite(w) ==
  /\ workers[w].pc = "insert_write"
  /\ \E retry \in BOOLEAN :
       /\ raw' = upsert_write(raw, "content_hash", workers[w].document,
                              raw_unique_index, workers[w].found, retry).coll
       /\ workers' = [workers EXCEPT
                        ![w].pc = IF WorkerQuestions = << >> THEN "done" ELSE "question_find",
                        ![w].inserted =
                          upsert_write(raw, "content_hash", workers[w].document,
                                       raw_unique_index, workers[w].found, retry).ok]
  /\ UNCHANGED <<questions, now, faults, last, mgrVars, result>>

\* extract_and_store_questions, first phase of the upsert of question i
QuestionFind(w) ==
  /\ workers[w].pc = "question_find"
  /\ workers' = [workers EXCEPT
                   ![w].pc = "question_write",
                   ![w].found = upsert_find(questions, "question_id",
                                            WorkerQuestionDoc(w, workers[w].i))]
  /\ UNCHANGED <<raw, questions, now, faults, last, mgrVars, result>>

\* extract_and_store_questions, second phase of the upsert of question i; an
\* exception is logged and the loop goes on
QuestionWrite(w) ==
  /\ workers[w].pc = "question_write"
  /\ \E retry \in BOOLEAN :
       /\ questions' = upsert_write(questions, "question_id",
                                    WorkerQuestionDoc(w, workers[w].i),
                                    questions_unique_index, workers[w].found, retry).coll
       /\ workers' = [workers EXCEPT
                        ![w].pc = IF workers[w].i = Len(WorkerQuestions) THEN "done"
                                  ELSE "question_find",
                        ![w].i = workers[w].i + 1,
                        ![w].stored_count =
                          workers[w].stored_count
                            + (IF upsert_write(questions, "question_id",
                                               WorkerQuestionDoc(w, workers[w].i),
                                               questions_unique_index, workers[w].found,
                                               retry).ok
                               THEN 1 ELSE 0)]
  /\ UNCHANGED <<raw, now, faults, last, mgrVars, result>>

InitStore ==
  /\ raw = << >>
  /\ questions = << >>
  /\ now = 0
  /\ faults = 0
  /\ last = [op |-> "none"]
  /\ workers = [w \in Workers |-> [pc |-> "idle"]]

InitManagers ==
  /\ pc = [p \in Procs |-> "down"]
  /\ faiss_index = [p \in Procs |-> NoIndex]
  /\ doc_id_map = [p \in Procs |-> << >>]
  /\ origin = [p \in Procs |-> [how |-> "none", index |-> 0, map |-> 0, store |-> 0]]
  /\ seen = [p \in Procs |-> [index |-> NoFile, map |-> NoFile]]
  /\ index_file = NoFile
  /\ id_map_file = NoFile
  /\ builds = 0
  /\ crashes = 0
  /\ result = [op |-> "none"]

Init == InitStore /\ InitManagers

NextIngest == IngestPage

SpecIngest == Init /\ [][NextIngest]_vars

\* ingestion of pages of one site, every store call succeeding
IngestSitePage == \E text \in Contents : Ingest("u1", text, {})

NextIndex ==
  \/ IngestSitePage
  \/ \E p \in Procs : Start(p)
  \/ \E p \in Procs : ReadIndex(p)
  \/ \E p \in Procs : ReadIdMap(p)
  \/ \E p \in Procs : CreateIndex(p)
  \/ \E p \in Procs : WriteIndex(p)
  \/ \E p \in Procs : WriteIdMap(p)
  \/ \E p \in Procs : Crash(p)

SpecIndex == Init /\ [][NextIndex]_vars

\* Artifact files left at the fixed paths FAISS_INDEX_PATH / FAISS_ID_MAP_PATH
\* by an earlier deployment.  The database the manager reads is chosen by
\* MONGO_URI / MONGO_DB_NAME, so such files can meet any store, an empty one
\* included.
StaleIndexFile == [exists |-> TRUE, vectors |-> <<5>>, build |-> 0]
StaleIdMapFile == [exists |-> TRUE, ids |-> <<StrOfId(1)>>, build |-> 0]

InitStartup ==
  /\ InitStore
  /\ pc = [p \in Procs |-> "down"]
  /\ faiss_index = [p \in Procs |-> NoIndex]
  /\ doc_id_map = [p \in Procs |-> << >>]
  /\ origin = [p \in Procs |-> [how |-> "none", index |-> 0, map |-> 0, store |-> 0]]
  /\ seen = [p \in Procs |-> [index |-> NoFile, map |-> NoFile]]
  /\ index_file \in {NoFile, StaleIndexFile}
  /\ id_map_file \in {NoFile, StaleIdMapFile}
  /\ builds = 0
  /\ crashes = 0
  /\ result = [op |-> "none"]

\* the page with two questions is collected (again)
IngestQuestionPage == Ingest("u1", "cA", {})

\* startup of the managers against whatever is on disk, with load failures
\* and embedding failures
NextStartup ==
  \/ IngestQuestionPage
  \/ \E p \in Procs : Start(p)
  \/ \E p \in Procs : ReadIndex(p)
  \/ \E p \in Procs : ReadIdMap(p)
  \/ \E p \in Procs : LoadFails(p)
  \/ \E p \in Procs : CreateIndex(p)
  \/ \E p \in Procs : EmbedFails(p)
  \/ \E p \in Procs : WriteIndex(p)
  \/ \E p \in Procs : WriteIdMap(p)
  \/ \E p \in Procs : Crash(p)

SpecStartup == InitStartup /\ [][NextStartup]_vars

\* ingestion from every site, every store call succeeding
IngestPageOk == \E source \in Sources, text \in Contents : Ingest(source, text, {})

\* one serving process: constructed once, then answering retrieve_documents
NextRetrieve ==
  \/ IngestPageOk
  \/ Start("m1")
  \/ CreateIndex("m1")
  \/ WriteIndex("m1")
  \/ WriteIdMap("m1")
  \/ Retrieve("m1")
  \/ ReturnToCaller

SpecRetrieve == Init /\ [][NextRetrieve]_vars

\* one serving process that is restarted: it rebuilds, persists, and on the
\* next start loads what it persisted, while pages keep being collected
NextRestart ==
  \/ IngestSitePage
  \/ Start("m1")
  \/ ReadIndex("m1")
  \/ ReadIdMap("m1")
  \/ CreateIndex("m1")
  \/ WriteIndex("m1")
  \/ WriteIdMap("m1")
  \/ Crash("m1")
  \/ Retrieve("m1")
  \/ ReturnToCaller

SpecRestart == Init /\ [][NextRestart]_vars

(* ------------------------- the extractor alone ------------------------ *)
\* lines a page is made of: numbered questions in the three styles, option
\* lines in both styles, a plain line, an empty line
LineTemplates ==
  << <<"1", ".", " ", "Which one is it">>,
     <<"2", ".", " ", "Find x">>,
     <<"A", ".", " ", "foo">>,
     <<"b", ".", " ", "bar">>,
     <<"A", ".", " ", "3">>,
     <<"A", ")", " ", "foo">>,
     <<"Q", "3", ":", " ", "Explain why">>,
     <<"3", ")", " ", "State the law">>,
     <<"see the figure">>,
     << >>,
     <<"1", ".", " ", "Explain why">>,
     <<"1", ".", " ", "Which one is it", " ", "A", ".", " ", "foo", " ", "B", ".", " ", "bar">> >>

RECURSIVE JoinLines(_)
\* "\n".join(lines)
JoinLines(lines) ==
  IF Len(lines) = 1 THEN lines[1]
  ELSE lines[1] \o <<"\n">> \o JoinLines(Tail(lines))

\* "1. What is 2+2?\nA. 3\nB. 4\n2. Next question..."
ExampleText ==
  <<"1", ".", " ", "What is 2+2?", "\n", "A", ".", " ", "3", "\n",
    "B", ".", " ", "4", "\n", "2", ".", " ", "Next question...">>

\* a call of extract_questions and what it returned
Extraction(lines, text, source) ==
  [op |-> "extract", lines |-> lines, text |-> text, source |-> source,
   questions |-> extract_questions(text, source)]

\* extract_questions on a text of up to MaxLines lines
ExtractLines ==
  /\ result.op = "none"
  /\ \E n \in 1..MaxLines : \E lines \in [1..n -> DOMAIN LineTemplates] :
       result' = Extraction(lines, JoinLines([i \in 1..n |-> LineTemplates[lines[i]]]), "u1")
  /\ UNCHANGED <<storeVars, mgrVars>>

\* extract_questions on the example text
ExtractExample ==
  /\ result.op = "none"
  /\ result' = Extraction(<< >>, ExampleText, "u1")
  /\ UNCHANGED <<storeVars, mgrVars>>

\* extract_options on a region of up to MaxLines lines
ExtractOptions ==
  /\ result.op = "none"
  /\ \E n \in 1..MaxLines : \E lines \in [1..n -> DOMAIN LineTemplates] :
       result' = [op |-> "options", lines |-> lines,
                  text |-> JoinLines([i \in 1..n |-> LineTemplates[lines[i]]]),
                  options |-> extract_options(JoinLines([i \in 1..n |-> LineTemplates[lines[i]]]))]
  /\ UNCHANGED <<storeVars, mgrVars>>

\* stems and options lists determine_question_type is called with: stems with
\* words of no list, of one list and of two lists
TypeStems ==
  {<<"Which one is it">>, <<"calculate x">>, <<"Explain why">>, <<"true or false">>,
   <<"Find and explain">>, <<"State true or false">>, <<"Solve: true or false">>,
   <<"identify the true statement">>, <<"calculate x", " ", "explain why">>,
   <<"see the figure", "\n", "true or false">>}

TypeOptions == {<< >>, <<[letter |-> "A", text |-> "foo"]>>}

\* determine_question_type on a stem and an options list
DetermineType ==
  /\ result.op = "none"
  /\ \E stem \in TypeStems, options \in TypeOptions :
       result' = [op |-> "type", question_text |-> stem, options |-> options,
                  question_type |-> determine_question_type(stem, options)]
  /\ UNCHANGED <<storeVars, mgrVars>>

NextExtract == ExtractLines \/ ExtractExample \/ ExtractOptions \/ DetermineType

SpecExtract == Init /\ [][NextExtract]_vars

(* ------------------------ the fingerprint alone ----------------------- *)
\* sources, question numbers and stems of two extracted blocks
FpSources == {"paper", "paper-1"}
FpNumbers == {1, 11}
FpStems == {"butene is an alkene", "1-butene is an alkene", "1-1-butene is an alkene"}

Block(source, question_num, question_stem) ==
  [source |-> source, question_number |-> question_num, question_text |-> question_stem,
   question_id |-> question_id_of(source, question_num, question_stem)]

\* line 151 on two blocks
FingerprintPair ==
  /\ result.op = "none"
  /\ \E s1 \in FpSources, s2 \in FpSources, n1 \in FpNumbers, n2 \in FpNumbers,
        t1 \in FpStems, t2 \in FpStems :
       result' = [op |-> "fingerprint", a |-> Block(s1, n1, t1), b |-> Block(s2, n2, t2)]
  /\ UNCHANGED <<storeVars, mgrVars>>

NextFingerprint == FingerprintPair

SpecFingerprint == Init /\ [][NextFingerprint]_vars

(* ------------------- two workers on the same page --------------------- *)
\* earlier ingestions of the site, one after the other, before the workers
\* start
IngestBefore ==
  /\ \A w \in Workers : workers[w].pc = "idle"
  /\ IngestSitePage

NextWorkers ==
  \/ IngestBefore
  \/ \E w \in Workers : Fetch(w)
  \/ \E w \in Workers : InsertFind(w)
  \/ \E w \in Workers : InsertWrite(w)
  \/ \E w \in Workers : QuestionFind(w)
  \/ \E w \in Workers : QuestionWrite(w)

SpecWorkers == Init /\ [][NextWorkers]_vars

(* --------------------------- the year alone --------------------------- *)
\* str.lower() of a token
LowerToken(t) ==
  CASE t = "WAEC" -> "waec" [] t = "WASSCE" -> "wassce" [] t = "SSCE" -> "ssce"
    [] t = "Paper" -> "paper" [] t = "Exam" -> "exam" [] OTHER -> t

\* str.lower() of a text
lower(T) == [i \in DOMAIN T |-> LowerToken(T[i])]

\* (?:waec|wassce|ssce)
ExamNames == {"waec", "wassce", "ssce"}

\* \w: every token but the end of the text, blanks and punctuation
IsWordChar(c) == c \notin {"", " ", "\n", "-", ".", "/", ":"}

\* \d{n} at position i
DigitsAt(T, i, n) == \A d \in 0..(n - 1) : At(T, i + d) \in DigitChars

\* where a greedy run of separators that starts at i stops
SkipSeps(T, i, seps) ==
  IF i > Len(T) THEN i ELSE Least({j \in i..(Len(T) + 1) : At(T, j) \notin seps})

\* the patterns of extract_year_from_content: exam name then four digits,
\* four digits then exam name, \b(19|20)\d{2}\b, and (the second collector)
\* \b\d{2}\b before exam / question / paper / waec
year_patterns == <<"name_first", "year_first", "plain">>

\* a match of the pattern at position i; group_from..group_to-1 is what
\* findall returns for it: the one group of the pattern, the whole match when
\* the pattern has no group
MatchYearAt(T, i, style, seps) ==
  CASE style = "name_first" ->
         [ok |-> At(T, i) \in ExamNames /\ DigitsAt(T, SkipSeps(T, i + 1, seps), 4),
          group_from |-> SkipSeps(T, i + 1, seps),
          group_to |-> SkipSeps(T, i + 1, seps) + 4,
          end |-> SkipSeps(T, i + 1, seps) + 4]
    [] style = "year_first" ->
         [ok |-> DigitsAt(T, i, 4) /\ At(T, SkipSeps(T, i + 4, seps)) \in ExamNames,
          group_from |-> i, group_to |-> i + 4,
          end |-> SkipSeps(T, i + 4, seps) + 1]
    [] style = "plain" ->
         [ok |-> /\ ~IsWordChar(At(T, i - 1))
                 /\ <<At(T, i), At(T, i + 1)>> \in {<<"1", "9">>, <<"2", "0">>}
                 /\ DigitsAt(T, i + 2, 2)
                 /\ ~IsWordChar(At(T, i + 4)),
          group_from |-> i, group_to |-> i + 2,
          end |-> i + 4]
    [] style = "two_digit" ->
         [ok |-> /\ ~IsWordChar(At(T, i - 1))
                 /\ DigitsAt(T, i, 2)
                 /\ ~IsWordChar(At(T, i + 2))
                 /\ At(T, SkipSeps(T, i + 2, {" ", "\n"}))
                      \in {"exam", "question", "paper", "waec"},
          group_from |-> i, group_to |-> i + 2,
          end |-> i + 2]

RECURSIVE findall(_, _, _, _)
\* [int(match) for match in re.findall(pattern, text)] from position pos on
findall(T, pos, style, seps) ==
  LET starts == {i \in pos..Len(T) : MatchYearAt(T, i, style, seps).ok} IN
  IF starts = {} THEN << >>
  ELSE LET m == MatchYearAt(T, Least(starts), style, seps) IN
       <<IntOf(T, m.group_from, m.group_to)>> \o findall(T, m.end, style, seps)

\* the matches of the three patterns, pattern after pattern; seps is [_ -]
\* for the filename and \s for the content
matches_of(T, seps) ==
  findall(T, 1, year_patterns[1], seps) \o findall(T, 1, year_patterns[2], seps)
    \o findall(T, 1, year_patterns[3], seps)

\* those of the matches with 1990 <= year <= 2030
in_range(years) == SelectSeq(years, LAMBDA y : 1990 <= y /\ y <= 2030)

\* max(years_found)
MaxOf(years) == CHOOSE y \in Range(years) : \A z \in Range(years) : z <= y

\* the return value, from the in-range matches in the filename and in the
\* content; 0 stands for None
year_returned(from_filename, years_found) ==
  IF from_filename # << >> THEN from_filename[1]
  ELSE IF years_found # << >> THEN MaxOf(years_found)
  ELSE 0

\* extract_year_from_content of data-preparation/data_collector.py
extract_year_from_content(content, filename) ==
  year_returned(in_range(matches_of(lower(filename), {"_", " ", "-"})),
                in_range(matches_of(lower(content), {" ", "\n"})))

\* the year the second collector makes of its first match in the filename: a
\* match of four characters as it is, one of two characters in 2000.. or 1900..
year_of_first(year, length) ==
  IF length = 4 THEN year ELSE IF year < 50 THEN 2000 + year ELSE 1900 + year

\* extract_year_from_content of backend/data_collector.py
backend_year_returned(plain, two_digit, years) ==
  IF plain # << >> THEN year_of_first(plain[1], 2)
  ELSE IF two_digit # << >> THEN year_of_first(two_digit[1], 2)
  ELSE IF years # << >> THEN MaxOf(years)
  ELSE 0

backend_extract_year_from_content(content, filename) ==
  backend_year_returned(findall(lower(filename), 1, "plain", {}),
                        findall(lower(filename), 1, "two_digit", {}),
                        in_range(findall(content, 1, "plain", {})))

\* pieces of a content, and filenames
YearItems ==
  << <<"1", "9", "9", "8">>, <<"2", "0", "1", "2">>, <<"1", "9", "8", "5">>,
     <<"WAEC">>, <<"wassce">>, <<" ">>, <<"\n">>, <<"past questions">>, <<"7">>, <<"_">> >>

YearFilenames ==
  { <<"paper", ".", "pdf">>,
    <<"waec", "_", "2", "0", "1", "5", ".", "pdf">>,
    <<"2", "0", "1", "1", "-", "SSCE", ".", "pdf">>,
    <<"notes", "-", "2", "0", "1", "0", ".", "pdf">>,
    <<"1", "4", " ", "paper", ".", "pdf">> }

RECURSIVE Concat(_)
\* the pieces one after the other
Concat(pieces) == IF pieces = << >> THEN << >> ELSE Head(pieces) \o Concat(Tail(pieces))

\* a call of extract_year_from_content and what each collector returned
YearCall(content, filename) ==
  [op |-> "year", content |-> content, filename |-> filename,
   year |-> extract_year_from_content(content, filename),
   backend_year |-> backend_extract_year_from_content(content, filename)]

\* extract_year_from_content on a content of up to MaxYearItems pieces
ExtractYear ==
  /\ result.op = "none"
  /\ \E n \in 0..MaxYearItems : \E items \in [1..n -> DOMAIN YearItems] :
       \E filename \in YearFilenames :
         result' = YearCall(Concat([i \in 1..n |-> YearItems[items[i]]]), filename)
  /\ UNCHANGED <<storeVars, mgrVars>>

SpecYear == Init /\ [][ExtractYear]_vars

(* --------------------------- collect_pdf_data ------------------------- *)
\* pdf_path.parts of the files pdf_directory.glob("**/*.pdf") can yield
PdfPaths == {<< <<"pdfs">>, dir, name >> : dir \in PdfDirs, name \in PdfNames}

\* the page texts a file can have
PdfPageLists == UNION {[1..n -> PdfContents] : n \in 1..MaxPages}

\* pdf_path.name
PdfName(pdf) == pdf.parts[Len(pdf.parts)]

\* part.isdigit() and len(part) == 4
IsYearPart(part) == TextLen(part) = 4 /\ \A i \in DOMAIN part : part[i] \in DigitChars

\* lines 347-351: int() of the first four-digit component of the path, 0 for
\* None
year_of_parts(parts) ==
  IF {i \in DOMAIN parts : IsYearPart(parts[i])} = {} THEN 0
  ELSE IntOf(parts[Least({i \in DOMAIN parts : IsYearPart(parts[i])})], 1, 5)

\* the document process_pdf_document builds for a page
PdfDocument(pdf, page_number, year, at) ==
  [source |-> PdfSource(PdfName(pdf), page_number), content |-> pdf.pages[page_number],
   content_hash |-> Md5(pdf.pages[page_number]), year |-> year, collected_at |-> at]

\* the pages process_pdf_document keeps: those of 50 characters and more
kept_pages(pdf) ==
  SelectSeq([i \in DOMAIN pdf.pages |-> i],
            LAMBDA i : TextLen(PageText(pdf.pages[i])) >= 50)

\* the documents of the kept pages
pdf_documents(pdf, kept, year, at) ==
  [n \in DOMAIN kept |-> PdfDocument(pdf, kept[n], year, at)]

\* process_pdf_document: the year falls back on the filename, pages under 50
\* characters are left out
process_pdf_document(pdf, year, at) ==
  pdf_documents(pdf, kept_pages(pdf),
                IF year = 0 THEN extract_year_from_content(<< >>, PdfName(pdf)) ELSE year, at)

\* lines 359-362 for one document: insert_document, the count, and
\* extract_and_store_questions whatever insert_document returned
StoredPage(st, document, inserted, at) ==
  [raw_coll        |-> inserted.coll,
   question_coll   |-> extract_and_store_questions(st.question_coll, document, at, {}).coll,
   collected_count |-> st.collected_count + (IF inserted.ok THEN 1 ELSE 0),
   processed       |-> st.processed,
   handled         |-> Append(st.handled, document.source)]

RECURSIVE StorePages(_, _, _, _)
\* the loop over the documents of a file (lines 358-362) from document n on
StorePages(st, documents, n, at) ==
  IF n > Len(documents) THEN st
  ELSE StorePages(StoredPage(st, documents[n], insert_document(st.raw_coll, documents[n]), at),
                  documents, n + 1, at)

\* the body of the loop over pdf_files (lines 346-362): process_pdf_document
\* and the loop over its documents stand inside 'if not year:', so a file
\* whose path has a year component is passed over
collect_pdf(st, pdf, at) ==
  IF year_of_parts(pdf.parts) # 0 THEN st
  ELSE StorePages([st EXCEPT !.processed = Append(@, pdf.parts)],
                  process_pdf_document(pdf, extract_year_from_content(<< >>, PdfName(pdf)), at),
                  1, at)

RECURSIVE PdfLoop(_, _, _, _)
\* the loop over pdf_files from file n on
PdfLoop(st, pdf_files, n, at) ==
  IF n > Len(pdf_files) THEN st
  ELSE PdfLoop(collect_pdf(st, pdf_files[n], at), pdf_files, n + 1, at)

\* collect_pdf_data over the files found and the two collections
collect_pdf_data(raw_coll, question_coll, pdf_files, at) ==
  PdfLoop([raw_coll |-> raw_coll, question_coll |-> question_coll, collected_count |-> 0,
           processed |-> << >>, handled |-> << >>],
          pdf_files, 1, at)

\* the collections and the record of the call once collect_pdf_data is done
PdfCollected(done, pdf_files) ==
  /\ raw' = done.raw_coll
  /\ questions' = done.question_coll
  /\ result' = [op |-> "collect_pdf", pdf_files |-> pdf_files,
                processed |-> done.processed, handled |-> done.handled,
                returned |-> done.collected_count]

\* collect_pdf_data over a pdf directory that holds up to MaxPdfFiles files,
\* which glob yields in any order
CollectPdfData ==
  /\ result.op = "none"
  /\ now < MaxIngests
  /\ \E n \in 0..MaxPdfFiles :
       \E paths \in [1..n -> PdfPaths], pages \in [1..n -> PdfPageLists] :
         /\ \A i, j \in 1..n : i # j => paths[i] # paths[j]
         /\ PdfCollected(collect_pdf_data(raw, questions,
                                         [i \in 1..n |-> [parts |-> paths[i],
                                                          pages |-> pages[i]]],
                                         now + 1),
                         [i \in 1..n |-> [parts |-> paths[i], pages |-> pages[i]]])
  /\ now' = now + 1
  /\ UNCHANGED <<faults, last, workers, mgrVars>>

NextPdf == CollectPdfData

SpecPdf == Init /\ [][NextPdf]_vars


(* ============================== claims ================================ *)
QuestionIds(coll) == {coll[i].question_id : i \in Positions(coll)}

RawKeys(coll) == [i \in Positions(coll) |-> <<coll[i].source, coll[i].content_hash>>]

\* C1: ingesting the same document (same source, same content) a second time,
\* right after an ingestion of it whose upserts all went through, adds no
\* record to raw_documents or processed_questions: raw_documents keeps the same
\* (source, content_hash) records with exactly one for the source, and
\* processed_questions keeps exactly the same question_id values.
C1_ReingestAddsNothing ==
  [][(last'.op = "ingest" /\ now' = now + 1 /\ last'.again)
       => /\ RawKeys(raw') = RawKeys(raw)
          /\ Cardinality(Matching(raw', "source", last'.source)) = 1
          /\ Len(questions') = Len(questions)
          /\ QuestionIds(questions') = QuestionIds(questions)
          /\ Cardinality(QuestionIds(questions')) = Len(questions')]_vars

C1_Witness ==
  /\ last.op = "ingest" /\ last.again
  /\ last.inserted /\ last.stored_count = 2
  /\ Len(raw) = 1 /\ Len(questions) = 2

\* C2: when a source already stored is ingested again with different content,
\* raw_documents afterwards holds exactly one record for the source and that
\* record carries the new content and the new content_hash.
C2_ChangedPageUpdatesInPlace ==
  [][(/\ last'.op = "ingest" /\ now' = now + 1
      /\ \E i \in Positions(raw) : /\ raw[i].source = last'.source
                                   /\ raw[i].content # last'.text)
       => /\ Cardinality(Matching(raw', "source", last'.source)) = 1
          /\ \A i \in Matching(raw', "source", last'.source) :
               /\ raw'[i].content = last'.text
               /\ raw'[i].content_hash = Md5(last'.text)]_vars

\* the last call was retrieve_documents with a query
QueryCall == result.op = "retrieve" /\ result.query # None

\* the last call carried a subject or a year
FilterCall == result.op = "retrieve" /\ (result.subject # None \/ result.year # 0)

\* the stored questions that satisfy the filters of the last call
Matches ==
  {j \in Positions(questions) :
     /\ result.subject # None => questions[j].subject = Lower(result.subject)
     /\ result.year # 0 => questions[j].year = result.year}

ReturnedIds == [i \in DOMAIN result.docs |-> StrOfId(result.docs[i]._id)]

\* C3: retrieve_documents with a query and filters that match n >= 1 stored
\* questions returns exactly min(k, n) distinct records, each satisfying every
\* supplied filter, whatever the global index holds.
C3_FilteredResult ==
  (QueryCall /\ FilterCall /\ Matches # {})
    => /\ result.outcome = "ok"
       /\ Len(result.docs) = Min(result.k, Cardinality(Matches))
       /\ \A i \in DOMAIN result.docs : \E j \in Matches : questions[j] = result.docs[i]
       /\ \A i, j \in DOMAIN result.docs : i # j => result.docs[i]._id # result.docs[j]._id

\* two matching questions, k = 3, and a question of another subject and year
\* that lies nearer to the query than either of them
C3_Witness ==
  /\ QueryCall /\ result.subject = "Mathematics" /\ result.year = 2012
  /\ result.k = 3 /\ Cardinality(Matches) = 2 /\ Len(result.docs) = 2
  /\ \E o \in Positions(questions) \ Matches : \A j \in Matches :
       L2(Embed(TextToEmbed(questions[o])), Embed(result.query))
         < L2(Embed(TextToEmbed(questions[j])), Embed(result.query))

\* C4: with a query and filters that match no stored question the call returns
\* an empty result and invokes neither the embedding provider (query or
\* documents) nor a nearest-neighbour search.
C4_EmptySubsetSkipsEmbedding ==
  (QueryCall /\ FilterCall /\ Matches = {})
    => /\ result.outcome = "ok" /\ result.docs = << >>
       /\ ~result.embedded_query /\ ~result.embedded_documents
       /\ result.search = "none"

\* C5: whatever the query, subject, year and k >= 1, a call that returns
\* returns at most k records.
C5_AtMostK ==
  (result.op = "retrieve" /\ result.outcome = "ok") => Len(result.docs) <= result.k

\* C6: a call with a query returns its records in the order of the
\* nearest-neighbour search result (nearest first).
C6_SearchOrderKept ==
  (QueryCall /\ result.outcome = "ok" /\ result.search # "none"
     /\ Cardinality(Range(result.ranked)) = Len(result.ranked))
    => ReturnedIds = result.ranked

\* C7: on a manager constructed over an empty store with no artifacts (no
\* index, empty id map) every call with a query returns an empty result and
\* raises nothing.
C7_EmptyIndexReturnsEmpty ==
  (QueryCall /\ origin[result.p].how = "rebuilt"
     /\ faiss_index[result.p].none /\ doc_id_map[result.p] = << >>)
    => (result.outcome = "ok" /\ result.docs = << >>)

RecordsWithId(coll, mid) == {j \in Positions(coll) : coll[j]._id = ObjectId(mid)}

SameLength(p) == IndexSize(faiss_index[p]) = Len(doc_id_map[p])

IdsResolve(p) ==
  \A i \in DOMAIN doc_id_map[p] : RecordsWithId(questions, doc_id_map[p][i]) # {}

VectorsOfRecords(p) ==
  \A i \in DOMAIN doc_id_map[p] :
    \A j \in RecordsWithId(questions, doc_id_map[p][i]) :
      faiss_index[p].vectors[i] = Embed(TextToEmbed(questions[j]))

\* C8: when _create_index_from_mongodb has built the index over a non-empty
\* store, the id map has as many entries as the index has vectors, vector i is
\* the embedding of the stem+options text of the record id map entry i names,
\* and every entry names a stored record; length and resolution still hold
\* when the rebuild has written its files and returned.
C8_RebuildAligned ==
  /\ [][\A p \in Procs :
          (pc[p] = "rebuild" /\ pc'[p] = "write_index")
            => (SameLength(p) /\ IdsResolve(p) /\ VectorsOfRecords(p))']_vars
  /\ [](\A p \in Procs :
          (pc[p] = "ready" /\ origin[p].how = "rebuilt")
            => (SameLength(p) /\ IdsResolve(p)))

C8_Witness ==
  \E p \in Procs :
    /\ pc[p] = "ready" /\ origin[p].how = "rebuilt"
    /\ Len(doc_id_map[p]) = 2
    /\ faiss_index[p].vectors[1] # faiss_index[p].vectors[2]
    /\ id_map_file.exists /\ id_map_file.build = origin[p].map

\* C9: a constructed manager, its index loaded or rebuilt, always holds as
\* many index vectors as id map entries.
C9_IndexSizeIsMapLength ==
  \A p \in Procs : pc[p] = "ready" => IndexSize(faiss_index[p]) = Len(doc_id_map[p])

\* C10: a process that loads the two artifact files never pairs an index
\* written by one rebuild with an id map written by another.
C10_LoadedPairFromOneRebuild ==
  \A p \in Procs :
    (pc[p] = "ready" /\ origin[p].how = "loaded") => origin[p].index = origin[p].map

\* C11: when the embedding provider fails during a rebuild, the rebuild fails
\* (the constructor ends with the exception) and the failing attempt leaves
\* the index file and the id map file exactly as they were; no file on disk
\* ever carries the stamp of a rebuild whose embedding failed.
C11_FailedRebuildWritesNothing ==
  /\ [][\A p \in Procs :
          (pc[p] = "rebuild" /\ origin'[p].how = "failed")
            => /\ pc'[p] = "failed"
               /\ index_file' = index_file
               /\ id_map_file' = id_map_file]_vars
  /\ [](\A p \in Procs :
          origin[p].how = "failed"
            => /\ ~(index_file.exists /\ index_file.build = origin[p].index)
               /\ ~(id_map_file.exists /\ id_map_file.build = origin[p].map))

\* a stale pair on disk failed to load, the rebuild then failed in the
\* embedding call, and the pair is still there
C11_Witness ==
  \E p \in Procs :
    /\ pc[p] = "failed" /\ origin[p].how = "failed"
    /\ Len(doc_id_map[p]) = 2
    /\ seen[p].index = StaleIndexFile /\ seen[p].map = StaleIdMapFile
    /\ index_file = StaleIndexFile /\ id_map_file = StaleIdMapFile

\* the steps of the load path of manager p, and the ends of its rebuild
LoadStep(p) ==
  \/ pc[p] = "read_index" /\ pc'[p] = "read_map"
  \/ pc[p] = "read_map" /\ pc'[p] = "ready"
RebuildDone(p) == pc[p] \in {"rebuild", "write_map"} /\ pc'[p] = "ready"

\* loading takes the files as they are and starts no rebuild; a start that
\* finds an artifact missing, or a failed load, goes to the rebuild, which
\* reads every stored question
C12_LoadOrRebuild ==
  \A p \in Procs :
    /\ LoadStep(p)
         => /\ builds' = builds /\ index_file' = index_file /\ id_map_file' = id_map_file
            /\ pc[p] = "read_index" => faiss_index'[p].vectors = index_file.vectors
            /\ pc[p] = "read_map" => doc_id_map'[p] = id_map_file.ids
    /\ (pc[p] \in {"down", "failed"} /\ pc'[p] = "read_index")
         => (index_file.exists /\ id_map_file.exists)
    /\ (pc[p] \in {"down", "failed"} /\ pc'[p] \notin {"down", "failed"}
          /\ ~(index_file.exists /\ id_map_file.exists))
         => pc'[p] = "rebuild"
    /\ (pc[p] \in {"read_index", "read_map"} /\ ~LoadStep(p) /\ pc'[p] \notin {pc[p], "down"})
         => pc'[p] = "rebuild"
    /\ (pc[p] = "rebuild" /\ pc'[p] \in {"write_index", "ready"})
         => (builds' = builds + 1 /\ doc_id_map'[p] = ids_of(questions))

\* C12 as stated: ..., and every rebuild that completes, over an empty store
\* too, has written a fresh index file and a fresh id map file, so that
\* nothing that was on disk when the manager started is left.
C12_AsStated ==
  [][/\ C12_LoadOrRebuild
     /\ \A p \in Procs :
          RebuildDone(p)
            => /\ index_file'.exists /\ index_file' # seen[p].index
               /\ id_map_file'.exists /\ id_map_file' # seen[p].map]_vars

\* C12 (amended): on startup, if both artifact files exist and load they are
\* used as they are and no rebuild happens; if either is missing or fails to
\* load, a rebuild reads every stored question.  Over a non-empty store the
\* rebuild has, when it completes, written the index file and then the id map
\* file: the id map on disk is its own and the index file is not the one that
\* was there at startup.  Over an empty store it writes nothing: the manager
\* holds no index and an empty id map, and what was on disk stays.
C12_RebuildWritesUnlessStoreEmpty ==
  [][/\ C12_LoadOrRebuild
     /\ \A p \in Procs :
          /\ (pc[p] = "write_map" /\ pc'[p] = "ready")
               => /\ id_map_file' = [exists |-> TRUE, ids |-> doc_id_map[p],
                                      build |-> origin[p].map]
                  /\ index_file'.exists /\ index_file' # seen[p].index
                  /\ id_map_file' # seen[p].map
          /\ (pc[p] = "rebuild" /\ pc'[p] = "ready")
               => /\ questions = << >>
                  /\ faiss_index'[p].none /\ doc_id_map'[p] = << >>
                  /\ index_file' = index_file /\ id_map_file' = id_map_file]_vars

\* the index file was missing at startup next to a stale id map; the rebuild
\* over a non-empty store has replaced the id map and written the index
C12_Witness ==
  \E p \in Procs :
    /\ pc[p] = "ready" /\ origin[p].how = "rebuilt"
    /\ seen[p].index = NoFile /\ seen[p].map = StaleIdMapFile
    /\ Len(doc_id_map[p]) = 2
    /\ index_file.exists /\ index_file.build = origin[p].index
    /\ id_map_file.exists /\ id_map_file.build = origin[p].map

\* C13: every question extract_questions returns has question_type
\* 'multiple_choice' exactly when its options list is not empty.
C13_TypeIffOptions ==
  result.op = "extract"
    => \A i \in DOMAIN result.questions :
         (result.questions[i].question_type = "multiple_choice")
           <=> (result.questions[i].options # << >>)

\* a stem with a calculation word and options, next to a question without
\* options
C13_Witness ==
  /\ result.op = "extract"
  /\ \E i, j \in DOMAIN result.questions :
       /\ result.questions[i].question_text = "Find x"
       /\ Len(result.questions[i].options) = 1
       /\ result.questions[i].question_type = "multiple_choice"
       /\ result.questions[j].options = << >>
       /\ result.questions[j].question_type = "essay"

\* C14: two blocks of one source with equal question_number get equal
\* question_id when their stems are equal and different fingerprint inputs
\* (hence ids) when their stems differ.
C14_SameSourceIdFollowsStem ==
  (result.op = "fingerprint" /\ result.a.source = result.b.source
     /\ result.a.question_number = result.b.question_number)
    => ((result.a.question_text = result.b.question_text)
          <=> (result.a.question_id = result.b.question_id))

C14_Witness ==
  /\ result.op = "fingerprint"
  /\ result.a.source = "paper-1" /\ result.b.source = "paper-1"
  /\ result.a.question_number = 11 /\ result.b.question_number = 11
  /\ result.a.question_text = "butene is an alkene"
  /\ result.b.question_text = "1-butene is an alkene"
  /\ result.a.question_id # result.b.question_id

\* C15: two blocks with the same question_number from different sources
\* always get different fingerprint inputs: the hashed string is an injective
\* encoding of (source, question_number, stem).
C15_InjectiveAcrossSources ==
  (result.op = "fingerprint" /\ result.a.source # result.b.source
     /\ result.a.question_number = result.b.question_number)
    => result.a.question_id # result.b.question_id

\* a line "N. stem" and a line "X. text" of the templates
IsDotQuestionLine(l) ==
  /\ Len(LineTemplates[l]) >= 2
  /\ LineTemplates[l][1] \in DigitChars /\ LineTemplates[l][2] = "."
IsDotOptionLine(l) ==
  /\ Len(LineTemplates[l]) >= 2
  /\ LineTemplates[l][1] \in OptionLetters /\ LineTemplates[l][2] = "."

\* C16: a block whose stem line is followed by option lines and then by the
\* next numbered question, as in "1. What is 2+2?\nA. 3\nB. 4\n2. Next
\* question...", yields a first question whose stem is the text before the
\* first option line, whose options are exactly the option lines in order
\* (A -> "3", B -> "4") and whose type is multiple_choice.
C16_StemThenOptionLines ==
  /\ (result.op = "extract" /\ result.text = ExampleText)
       => /\ Len(result.questions) >= 1
          /\ result.questions[1].question_text = "What is 2+2?"
          /\ result.questions[1].options = << [letter |-> "A", text |-> "3"],
                                              [letter |-> "B", text |-> "4"] >>
          /\ result.questions[1].question_type = "multiple_choice"
  /\ (/\ result.op = "extract" /\ Len(result.lines) >= 3
      /\ IsDotQuestionLine(result.lines[1])
      /\ IsDotQuestionLine(result.lines[Len(result.lines)])
      /\ \A n \in 2..(Len(result.lines) - 1) : IsDotOptionLine(result.lines[n]))
       => /\ Len(result.questions) >= 1
          /\ result.questions[1].question_text = LineTemplates[result.lines[1]][4]
          /\ result.questions[1].options =
               [n \in 1..(Len(result.lines) - 2) |->
                  [letter |-> Upper(LineTemplates[result.lines[n + 1]][1]),
                   text   |-> LineTemplates[result.lines[n + 1]][4]]]
          /\ result.questions[1].question_type = "multiple_choice"

\* the places of a text where the letter (in either case) stands before a "."
LetterMarks(T, letter) ==
  {i \in 1..Len(T) : T[i] \in OptionLetters /\ Upper(T[i]) = letter /\ At(T, i + 1) = "."}

OptionsWithLetter(options, letter) == {n \in DOMAIN options : options[n].letter = letter}

\* C20 as stated: in every question extract_questions returns, no two options
\* share a letter.
C20_LettersDistinct ==
  result.op = "extract"
    => \A i \in DOMAIN result.questions :
         \A m, n \in DOMAIN result.questions[i].options :
           m # n => result.questions[i].options[m].letter
                      # result.questions[i].options[n].letter

\* C20 (amended): the options of a question carry upper-case letters A..E in
\* the order of the option lines, and duplicate letters are kept: a question
\* has no more options with a letter than the text has "X." marks with that
\* letter, so two options share a letter only if two option lines of the
\* source do.
C20_LettersAsInSource ==
  result.op = "extract"
    => \A i \in DOMAIN result.questions :
         \A letter \in {"A", "B", "C", "D", "E"} :
           /\ Cardinality(OptionsWithLetter(result.questions[i].options, letter))
                <= Cardinality(LetterMarks(result.text, letter))
           /\ \A n \in DOMAIN result.questions[i].options :
                result.questions[i].options[n].letter \in {"A", "B", "C", "D", "E"}

\* two option lines "A. foo" under one stem: both are kept
C20_Witness ==
  /\ result.op = "extract"
  /\ Cardinality(LetterMarks(result.text, "A")) = 2
  /\ \E i \in DOMAIN result.questions :
       /\ Len(result.questions[i].options) = 2
       /\ result.questions[i].options[1].letter = "A"
       /\ result.questions[i].options[2].letter = "A"

(* C17 *)
\* the four-digit numbers between word boundaries in a text that lie in
\* 1990..2030
PlainYears(T) ==
  {IntOf(T, i, i + 4) :
     i \in {j \in 1..Len(T) : /\ ~IsWordChar(At(T, j - 1))
                              /\ DigitsAt(T, j, 4)
                              /\ ~IsWordChar(At(T, j + 4))
                              /\ in_range(<<IntOf(T, j, j + 4)>>) # << >>}}

\* a filename without four digits in a row
NoYearHint(filename) == \A i \in 1..Len(filename) : ~DigitsAt(filename, i, 4)

\* C17: when the filename gives no year hint and the content holds plain
\* four-digit years within 1990..2030, extract_year_from_content returns the
\* largest of them.
C17_MaxPlainYear ==
  (/\ result.op = "year"
   /\ NoYearHint(result.filename)
   /\ PlainYears(result.content) # {})
  => /\ result.year \in PlainYears(result.content)
     /\ \A y \in PlainYears(result.content) : y <= result.year


(* C18 *)
\* the record extract_and_store_questions writes for question i of the last
\* ingested page
StoredDoc(i) ==
  question_doc_of(Extracted[last.text][last.source][i],
                  Document(last.source, last.text, now),
                  IF extract_subject(last.text, last.source) = None THEN "unknown"
                  ELSE extract_subject(last.text, last.source),
                  now)

\* question i of the last ingested page is in the store as this ingestion
\* wrote it
StoredNow(i) ==
  \E j \in Positions(questions) : SetFields(questions[j], StoredDoc(i)) = questions[j]

\* C18: after extract_and_store_questions, every question of the page whose
\* own upsert did not raise is in the store as this call wrote it, whichever
\* of its siblings' upserts raised, and the returned count is the number of
\* upserts that did not raise.
C18_FailuresIsolated ==
  last.op = "ingest" =>
    /\ last.stored_count =
         Cardinality(DOMAIN Extracted[last.text][last.source] \ last.fails)
    /\ \A i \in DOMAIN Extracted[last.text][last.source] \ last.fails : StoredNow(i)

\* the upsert of the first question raised and the second question was stored;
\* or that of the second raised and the first was stored
C18_Witness ==
  /\ last.op = "ingest"
  /\ Len(Extracted[last.text][last.source]) = 2
  /\ last.fails = {1}
  /\ last.stored_count = 1
  /\ StoredNow(2)


(* C19 *)
\* both workers have gone through insert_document and all their upserts
WorkersDone == \A w \in Workers : workers[w].pc = "done"

\* the raw records of the page the workers ingest, the question records with
\* the id of its question i
PageRecords == Matching(raw, "source", WorkerSource)
QuestionRecords(i) == Matching(questions, "question_id", WorkerQuestions[i].question_id)

\* C19: after two workers have ingested the same page at the same time, in
\* whatever order their steps came, the store holds exactly one raw record of
\* the page and exactly one question record per question_id, each carrying
\* what one of the two workers wrote.
C19_ConcurrentIngestSafe ==
  WorkersDone =>
    /\ Cardinality(PageRecords) = 1
    /\ \A j \in PageRecords :
         \E w \in Workers : SetFields(raw[j], workers[w].document) = raw[j]
    /\ \A i \in DOMAIN WorkerQuestions :
         /\ Cardinality(QuestionRecords(i)) = 1
         /\ \A j \in QuestionRecords(i) :
              \E w \in Workers : SetFields(questions[j], WorkerQuestionDoc(w, i)) = questions[j]

(* C21 *)
\* C21: every question extract_questions returns has a question_text of at
\* least 10 characters.
C21_StemAtLeast10 ==
  result.op = "extract" =>
    \A i \in DOMAIN result.questions : Len(result.questions[i].question_text) >= 10

(* C22 *)
\* the numbering patterns that have at least one match in the cleaned text T
MatchingPatterns(T) ==
  {n \in DOMAIN question_patterns : finditer_questions(T, 1, question_patterns[n]) # << >>}

\* what the first pattern with a match yields after the blocks under 10
\* characters are dropped; nothing when no pattern has a match
QuestionsOfFirstMatching(T, source) ==
  IF MatchingPatterns(T) = {} THEN << >>
  ELSE questions_of(T, finditer_questions(T, 1, question_patterns[Least(MatchingPatterns(T))]),
                    source)

\* C22: the questions extract_questions returns are those of the first
\* numbering pattern that has a match in the text, and none when all the
\* matches of that pattern are dropped; no later pattern is consulted.
C22_CascadeEndsAtFirstMatch ==
  result.op = "extract" =>
    result.questions = QuestionsOfFirstMatching(clean_text(result.text), result.source)

(* C23 *)
\* the options the given marker style yields in a region: its matches, those
\* with a text under two characters left out
OptionsOfStyle(T, mark) ==
  SelectSeq([i \in DOMAIN finditer_options(T, 1, mark) |->
               option_of(T, finditer_options(T, 1, mark)[i])],
            LAMBDA o : Len(o.text) >= 2)

\* C23: for a region in which the "A." style matches nothing and the "A)"
\* style matches, extract_options returns the options of the "A)" style.
C23_SecondStyleUsed ==
  (/\ result.op = "options"
   /\ finditer_options(result.text, 1, option_patterns[1]) = << >>
   /\ finditer_options(result.text, 1, option_patterns[2]) # << >>)
  => result.options = OptionsOfStyle(result.text, option_patterns[2])

(* C24 *)
\* the option markers anywhere in a block: an option letter followed by "." or ")"
EmbeddedMarkers(content_raw) ==
  {i \in 1..Len(content_raw) :
     content_raw[i] \in OptionLetters /\ At(content_raw, i + 1) \in {".", ")"}}

\* a block that is not skipped, in which the option-start search finds nothing
\* and which holds embedded option markers
EmbeddedOnly(content_raw) ==
  /\ TextLen(content_raw) >= 10
  /\ option_starts(content_raw) = {}
  /\ EmbeddedMarkers(content_raw) # {}

\* the question with the given number has options, and its text is the block
\* up to its first embedded marker
CarvedOut(qs, question_num, content_raw) ==
  \E i \in DOMAIN qs :
    /\ qs[i].question_number = question_num
    /\ qs[i].options # << >>
    /\ qs[i].question_text =
         Join(Strip(SubSeq(content_raw, 1, Least(EmbeddedMarkers(content_raw)) - 1)))

\* the blocks of the matches all have their embedded options carved out
BlocksCarvedOut(qs, T, matches) ==
  \A i \in DOMAIN matches :
    EmbeddedOnly(Strip(SubSeq(T, matches[i].content_from, matches[i].end - 1)))
    => CarvedOut(qs, IntOf(T, matches[i].num_from, matches[i].num_to),
                 Strip(SubSeq(T, matches[i].content_from, matches[i].end - 1)))

\* C24: a block without a line that begins with an option marker, but with
\* option markers embedded in it, yields a question with a non-empty options
\* list whose stem ends before the first embedded option.
C24_EmbeddedOptionsCarvedOut ==
  result.op = "extract" =>
    \A n \in DOMAIN question_patterns :
      (/\ result.questions # << >>
       /\ result.questions =
            questions_of(clean_text(result.text),
                         finditer_questions(clean_text(result.text), 1, question_patterns[n]),
                         result.source))
      => BlocksCarvedOut(result.questions, clean_text(result.text),
                         finditer_questions(clean_text(result.text), 1, question_patterns[n]))

(* C25 *)
QuestionTypes == {"multiple_choice", "calculation", "essay", "true_false", "short_answer"}

\* the rules of the classification in their order: whether a rule matches a
\* stem and an options list, and the type it gives
RuleMatches(rule, stem, options) ==
  CASE rule = 1 -> options # << >>
    [] rule = 2 -> HasWord(stem, "calc")
    [] rule = 3 -> HasWord(stem, "essay")
    [] rule = 4 -> HasWord(stem, "tf")
    [] OTHER    -> TRUE

RuleType(rule) ==
  CASE rule = 1 -> "multiple_choice"
    [] rule = 2 -> "calculation"
    [] rule = 3 -> "essay"
    [] rule = 4 -> "true_false"
    [] OTHER    -> "short_answer"

\* C25: determine_question_type returns the type of the first rule that
\* matches, in the order options, calculation word, explanatory word,
\* binary-judgment phrase, otherwise; the type is one of the five.
C25_FirstRuleWins ==
  result.op = "type" =>
    /\ result.question_type \in QuestionTypes
    /\ result.question_type =
         RuleType(Least({r \in 1..5 : RuleMatches(r, result.question_text, result.options)}))

\* a stem with a calculation word and an explanatory word, no options: the
\* earlier rule gives the type
C25_Witness ==
  /\ result.op = "type"
  /\ result.question_text = <<"Find and explain">>
  /\ result.options = << >>
  /\ RuleMatches(2, result.question_text, result.options)
  /\ RuleMatches(3, result.question_text, result.options)
  /\ result.question_type = "calculation"

(* C26 *)
\* a step that is a retrieve_documents call
RetrieveStep == result.op = "none" /\ result'.op = "retrieve"

\* C26: a retrieve_documents call, whatever its query and filters, leaves the
\* manager's index and id map, the two artifact files and the stored records
\* as they were; the index of the filtered path is not kept.
C26_RetrievalReadOnly ==
  [][RetrieveStep =>
       /\ faiss_index' = faiss_index
       /\ doc_id_map' = doc_id_map
       /\ index_file' = index_file
       /\ id_map_file' = id_map_file
       /\ questions' = questions
       /\ raw' = raw]_vars

\* a call with a query and a filter has ranked a subset of the stored
\* questions that differs from what the manager's index holds
C26_Witness ==
  /\ result.op = "retrieve"
  /\ result.outcome = "ok"
  /\ result.search = "subset"
  /\ result.docs # << >>
  /\ ~faiss_index[result.p].none
  /\ index_file.exists /\ id_map_file.exists
  /\ result.ranked # doc_id_map[result.p]

(* C27 *)
\* a step that stores questions
StoreStep == questions' # questions

\* the call in result' carries a query; with FilterToo, calls with a filter count
CallWithQuery(FilterToo) ==
  /\ result.op = "none" /\ result'.op = "retrieve"
  /\ result'.query # None
  /\ FilterToo \/ ~HasFilter(mongo_filter_of(result'.subject, result'.year))

\* the questions inserted after manager p obtained its index
InsertedSince(p) == {i \in Positions(questions) : i > origin[p].store}

\* the call in result' returns none of the questions inserted since
NoneInsertedSince ==
  \A i \in InsertedSince(result'.p) :
    \A n \in DOMAIN result'.docs : result'.docs[n]._id # questions[i]._id

\* C27 as stated: no call with a query returns a question stored after the
\* index was built or loaded, and ingestion changes neither index nor id map.
C27_AsStated ==
  [][/\ StoreStep => (faiss_index' = faiss_index /\ doc_id_map' = doc_id_map)
     /\ CallWithQuery(TRUE) => NoneInsertedSince]_vars

\* C27: a question inserted after the index was built or loaded is not
\* returned by a call with a query and no filter as long as the manager has
\* not rebuilt, and ingestion changes neither index nor id map.
C27_UnfilteredSearchSeesIndexedOnly ==
  [][/\ StoreStep => (faiss_index' = faiss_index /\ doc_id_map' = doc_id_map)
     /\ CallWithQuery(FALSE) => NoneInsertedSince]_vars

\* a manager that loaded its index has answered a query without a filter from
\* the questions of its index while the store holds a newer one
C27_Witness ==
  /\ result.op = "retrieve" /\ result.query # None
  /\ ~HasFilter(mongo_filter_of(result.subject, result.year))
  /\ result.outcome = "ok" /\ result.docs # << >>
  /\ origin[result.p].how = "loaded"
  /\ InsertedSince(result.p) # {}

(* C28 *)
\* C28: an ingestion of a page of one source leaves the raw_documents record
\* of every other source as it was, so that a source once stored keeps a
\* record that carries it, also when two sources have the same content.
C28_OtherSourcesKept ==
  [][(last'.op = "ingest" /\ now' = now + 1)
       => \A i \in Positions(raw) :
            raw[i].source # last'.source
              => /\ i \in Positions(raw')
                 /\ raw'[i] = raw[i]]_vars

(* C29 *)
\* the sources of the page documents of a file: its pages of 50 characters
\* and more
PageSources(pdf) ==
  {PdfSource(PdfName(pdf), i) : i \in {j \in DOMAIN pdf.pages :
                                          TextLen(PageText(pdf.pages[j])) >= 50}}

\* C29: collect_pdf_data calls process_pdf_document for every PDF file found,
\* whether the year comes from a directory of its path or from its filename,
\* and hands every page document to insert_document and
\* extract_and_store_questions.
C29_EveryPdfProcessed ==
  result.op = "collect_pdf" =>
    \A n \in DOMAIN result.pdf_files :
      /\ result.pdf_files[n].parts \in Range(result.processed)
      /\ PageSources(result.pdf_files[n]) \subseteq Range(result.handled)

(* C30 *)
\* C30: in a call with a query and no filter, only the positions the search
\* found are used to read doc_id_map: the ids read are no more than the
\* vectors of the index and no more than k, a -1 position giving none.
C30_NoNeighbourSkipped ==
  (result.op = "retrieve" /\ result.outcome = "ok" /\ result.search = "global")
    => Len(result.ranked) <= Min(result.k, IndexSize(faiss_index[result.p]))

====
